---- MODULE Spec2Model ----
(***************************************************************************)
(* Order execution and position lifecycle of the Polymarket trading bot    *)
(* (backend/app/trading_bot.py, backend/app/polymarket_client.py).         *)
(*                                                                         *)
(* Units.  Prices are in cents (0.75 -> 75).  Times to close are in        *)
(* hundredths of a second, so that every threshold of the source is an     *)
(* integer: 10/60 min -> 1000, 0.167 min -> 1002, 3/60 min -> 300,         *)
(* 3.5 min -> 21000, 4 min -> 24000.  Quantities are in shares.  Money is  *)
(* in thousandths of a dollar (price in cents * shares * 10).              *)
(***************************************************************************)
EXTENDS Integers, FiniteSets, Sequences, TLC

\* ---------------------------------------------------------------- bounds

\* Number of successive market windows the market feed serves.
MaxWindows == 2

\* Number of entries handed to a fill path in one run.
MaxTrades == 2

\* Number of times the bot is started in one run.
MaxStarts == 2

\* ------------------------------------------------------ program constants

\* Optional[...] results: None.
None == -1

\* settings (config.py), in the model's units.
order_size == 100
max_positions_per_market == 3
TRIGGER_PRICE == 75
TARGET == 99
ORDER_CANCEL_THRESHOLD == 1002
REENTRY_MAX_PRICE == 90

\* _execute_live_trading_strategy
LIVE_NO_BUY_THRESHOLD == 0
LIVE_FORCE_CLOSE_THRESHOLD == 300
LIVE_EARLY_BUY_THRESHOLD == 21000

\* _execute_paper_trading_strategy
PAPER_NO_BUY_THRESHOLD == 1000
PAPER_FORCE_CLOSE_THRESHOLD == 0
PAPER_EARLY_BUY_THRESHOLD == 24000

\* _place_live_entry / _place_paper_entry_unified
ENTRY_NO_BUY_THRESHOLD == 1000
MAX_BUY_RETRIES == 5
FALLBACK_PRICE_INCREMENT == 2
MAX_PRICE == 99

\* _market_sell
MAX_SELL_RETRIES == 5
FALLBACK_PRICE_REDUCTION == 2
MIN_PRICE == 1
MIN_ORDER_SIZE == 1

\* _calculate_stoploss_price
STOPLOSS_OFFSET == 15
MIN_STOPLOSS == 1

\* _calculate_taker_fee: rate per thousand and minimum in thousandths of a dollar.
TAKER_FEE_PER_MILLE == 1
MIN_TAKER_FEE == 1

\* ------------------------------------------------------------ input sets

Sides == {"YES", "NO"}

\* Times to close the clock is sampled at: one point in each interval the
\* thresholds of the source cut the window into.
TimePoints == {0, 600, 2000, 24000, 25000}

\* Time to close of a window when the market feed first serves it: the
\* earliest sampled point.
WindowStart == CHOOSE t \in TimePoints : \A u \in TimePoints : u <= t

\* The sampled points at or after a moment whose time to close is t.
Later(t) == {u \in TimePoints : u <= t}

\* The clock between two reads a cycle apart: it stays in the interval of t or
\* moves on to the next sampled point.
Steps(t) ==
  {t} \cup {u \in Later(t) : u < t /\ \A v \in Later(t) : v < t => v <= u}

\* A reading of get_time_to_close inside the paper entry handler entered at t:
\* None, the same moment, or a moment past the handler's own threshold.
EntryReadings(t) == {None, t} \cup {u \in Later(t) : u = 600}

\* The time to close when the live entry handler or one attempt of its retry
\* loop runs, entered at t: the same moment, or a moment past the handler's
\* threshold.
LadderTimes(t) == {t} \cup {u \in Later(t) : u = 600}

\* (YES, NO) quotes of a cycle that has no position open: each side in the
\* entry range, both sides in it, one at the re-entry limit, one at the
\* target, and one side unavailable.
Quotes ==
  {<<24, 76>>, <<76, 24>>, <<76, 76>>, <<90, 10>>, <<99, 1>>, <<None, 76>>}

\* The quotes of a cycle that has a position open on `side` and reads the time
\* to close t: that token at the stoploss, between stoploss and target, at the
\* target, and a quote missing.  Once the window has closed the price no
\* longer moves.
OpenQuotes(side, t) ==
  IF side = "YES"
  THEN {<<76, 24>>, <<None, 76>>}
       \cup (IF t > 0 THEN {<<60, 40>>, <<99, 1>>} ELSE {})
  ELSE {<<24, 76>>, <<76, None>>}
       \cup (IF t > 0 THEN {<<40, 60>>, <<1, 99>>} ELSE {})

\* The price of `side` in a quote.
QuoteOf(q, side) == IF side = "YES" THEN q[1] ELSE q[2]

\* Starting paper balances (BotState.paper_balance): the default and one that
\* covers no position.
DefaultBalance == 1000000
StartBalances == {DefaultBalance, 50000}

Max(a, b) == IF a >= b THEN a ELSE b
Min(a, b) == IF a <= b THEN a ELSE b

\* ----------------------------------------------------------------- state

VARIABLES
  paper_trading,   \* settings.paper_trading
  running,         \* TradingBot._running
  pc,              \* where the strategy task is
  now,             \* time to close of the market window being served
  market_id,       \* the window the market feed serves
  current_market,  \* TradingBot._current_market (its id; None before the first)
  live_state,      \* TradingBot._live_state
  paper_state,     \* TradingBot._paper_state
  active_orders,   \* TradingBot._active_orders: keys <<token, side>> with status "open"
  paper_balance,   \* BotState.paper_balance
  position_qty,    \* Position.quantity of the window's two tokens
  avg_price,       \* Position.avg_price of the two tokens, in tenths of a cent
  wallet,          \* conditional token balance on the exchange, per token
  entry_order,     \* the exchange's state of the order live_state.buy_order_id names
  lad,             \* the retry ladder in progress, or the last one of this cycle
  cyc,             \* what the last strategy cycle read and decided
  trades,          \* entries handed to a fill path since the initial state
  window_full,     \* positions_taken has reached the maximum in this window
  starts,          \* calls of start() that started the bot
  calc             \* a price calculation: its argument and its result

vars ==
  <<paper_trading, running, pc, now, market_id, current_market, live_state,
    paper_state, active_orders, paper_balance, position_qty, avg_price,
    wallet, entry_order, lad, cyc, trades, window_full, starts, calc>>

\* ------------------------------------------------- the two state objects

\* PaperTradingState.__init__ / reset
PaperReset ==
  [position_open |-> FALSE, entry_price |-> 0, entry_side |-> "None",
   positions_taken |-> 0]

\* A close that does not count the position.
PaperCloseUncounted(s) ==
  [position_open |-> FALSE, entry_price |-> 0, entry_side |-> "None",
   positions_taken |-> s.positions_taken]

\* PaperTradingState.close_position
PaperClose(s) ==
  [position_open |-> FALSE, entry_price |-> 0, entry_side |-> "None",
   positions_taken |-> s.positions_taken + 1]

\* LiveTradingState.__init__ / reset
LiveReset ==
  [position_open |-> FALSE, entry_price |-> 0, entry_side |-> "None",
   positions_taken |-> 0, buy_order_id |-> FALSE, buy_filled |-> FALSE,
   filled_size |-> 0, stoploss_price |-> 0, sell_attempted |-> FALSE]

\* LiveTradingState.close_position
LiveClose(s) ==
  [LiveReset EXCEPT !.positions_taken = s.positions_taken + 1]

\* The entry prices, in tenths of a cent, at which round(entry - 0.15, 2)
\* meets a half cent and Python's round gives the cent above: the binary
\* double of the difference lies above the half cent for these and below it
\* for the other prices ending in 5.
HalfCentUp == {785, 795, 805, 905, 915, 925, 935}

\* _calculate_stoploss_price on an entry price in tenths of a cent, the
\* result in tenths of a cent: max(round(entry_price - 0.15, 2), 0.01).
CalculateStoplossPrice(entry_price) ==
  LET stoploss_price == entry_price - 10 * STOPLOSS_OFFSET
      cents == stoploss_price \div 10
      rest == stoploss_price % 10
      rounded == IF rest > 5 \/ (rest = 5 /\ entry_price \in HalfCentUp)
                 THEN cents + 1 ELSE cents
  IN  Max(10 * rounded, 10 * MIN_STOPLOSS)

\* _calculate_stoploss_price on an entry price in whole cents, as the ladders
\* and the sampled quotes give it: the result is in whole cents.
CalculateStoploss(entry_price) ==
  CalculateStoplossPrice(10 * entry_price) \div 10

\* No price calculation running.
NoCalc == [op |-> "none"]

\* _calculate_taker_fee on a trade of `price` cents times `size` shares:
\* max(value * rate, min_fee), in thousandths of a dollar (value = 10*price*size).
TakerFee(price, size) ==
  Max((10 * price * size * TAKER_FEE_PER_MILLE) \div 1000, MIN_TAKER_FEE)

NoLadder == [side |-> "none"]
NoCycle == [act |-> "none"]

\* ------------------------------------------------------------------ Init

\* The state after TradingBot.__init__, with the database holding a BotState
\* row and no Position row for the window's tokens.
InitBot ==
  /\ paper_trading \in BOOLEAN
  /\ running = FALSE
  /\ pc = "stopped"
  /\ now = WindowStart
  /\ market_id = 1
  /\ current_market = None
  /\ live_state = LiveReset
  /\ paper_state = PaperReset
  /\ active_orders = {}
  /\ paper_balance \in (IF paper_trading THEN StartBalances ELSE {DefaultBalance})
  /\ position_qty = [s \in Sides |-> 0]
  /\ avg_price = [s \in Sides |-> 0]
  /\ wallet = [s \in Sides |-> 0]
  /\ entry_order = "none"
  /\ lad = NoLadder
  /\ cyc = NoCycle
  /\ trades = 0
  /\ window_full = FALSE
  /\ starts = 0

Init ==
  /\ InitBot
  /\ calc = NoCalc

\* TradingBot.start on a bot that is not running, the client connecting and a
\* private key being configured: both state objects are reset and the strategy
\* task is created.
Start ==
  /\ ~running
  /\ pc = "stopped"
  /\ starts < MaxStarts
  /\ starts' = starts + 1
  /\ running' = TRUE
  /\ pc' = "idle"
  /\ live_state' = LiveReset
  /\ paper_state' = PaperReset
  /\ entry_order' = "none"
  /\ lad' = NoLadder
  /\ cyc' = NoCycle
  /\ UNCHANGED <<calc, paper_trading, now, market_id, current_market,
                 active_orders, paper_balance, position_qty, avg_price, wallet,
                 trades, window_full>>


\* ------------------------------------------------------- market tokens

\* The "tokens" list of the market a pass of the loop works on: its length
\* and whether it holds a token of outcome "Yes" and one of outcome "No".
\* The list is missing or short when _parse_tokens gave nothing; it can hold
\* two tokens without one of the two outcomes.
MarketTokens ==
  {[n |-> 2, yes |-> TRUE, no |-> TRUE],
   [n |-> 0, yes |-> FALSE, no |-> FALSE],
   [n |-> 1, yes |-> TRUE, no |-> FALSE],
   [n |-> 2, yes |-> TRUE, no |-> FALSE],
   [n |-> 2, yes |-> FALSE, no |-> TRUE]}

\* A trading logic that takes any token list.
AnyTokensUsable(tok) == TRUE

\* _execute_trading_logic goes on to the strategy: at least two tokens, a
\* "Yes" token and a "No" token.
TokensUsable(tok) == tok.n >= 2 /\ tok.yes /\ tok.no

\* --------------------------------------------------------- market feed

\* What find_btc_5min_markets serves at a moment whose time to close is t: only
\* markets with time_to_close > 0, the soonest to close first.  While the
\* window is open that is the window itself; once it has closed it is the
\* next window, if the feed has one.
FeedMarket(t) ==
  IF t > 0 THEN [id |-> market_id, time_to_close |-> t]
  ELSE IF market_id < MaxWindows
       THEN [id |-> market_id + 1, time_to_close |-> WindowStart]
       ELSE [id |-> None, time_to_close |-> 0]

\* A loop that never takes the market found for a new one.
NeverNewMarket(m) == FALSE

\* _run_strategy, lines 273-284: the market differs from the one of the last
\* cycle.
IsNewMarket(m) == current_market # None /\ current_market # m.id

\* _run_strategy with no market found: scan again.
NoMarket ==
  /\ running
  /\ pc = "idle"
  /\ UNCHANGED vars

\* Whether positions_taken has reached max_positions_per_market in the
\* window the feed shows, after a step that leaves the strategy state s.
\* rotated: the step saw the window change.
WindowFull(rotated, s) ==
  \/ ~rotated /\ window_full
  \/ s.positions_taken >= max_positions_per_market

\* ---------------------------------------------------------------- ledger

\* _calculate_taker_fee on a trade value in thousandths of a dollar.
FeeOnValue(value) ==
  Max((value * TAKER_FEE_PER_MILLE) \div 1000, MIN_TAKER_FEE)

\* Position.avg_price after an update that takes the rows from qty0 to qty1,
\* a buy being at `price` cents: (avg * quantity + price * size) / new quantity
\* for the token bought, unchanged otherwise.  A row that holds nothing is
\* written 0: its next buy sets the average to the buy price whatever it was.
AvgAfter(qty0, qty1, avg, price) ==
  [t \in Sides |->
     IF qty1[t] = 0 THEN 0
     ELSE IF qty1[t] > qty0[t]
     THEN (avg[t] * qty0[t] + 10 * price * (qty1[t] - qty0[t])) \div qty1[t]
     ELSE avg[t]]

\* _update_live_position, side "sell": the amount added to total_pnl and used
\* for the win/loss decision, in thousandths of a dollar.
LivePnl(price, avg, size) == (10 * price - avg) * size

\* A paper ledger that books the gross amount.
PaperPnlGross(price, avg, size) == (10 * price - avg) * size

\* _update_paper_position_unified, side "sell": the same amount in paper mode.
PaperPnl(price, avg, size) ==
  (10 * price - avg) * size
  - (FeeOnValue(avg * size) + FeeOnValue(10 * price * size))

\* What a cycle or a ladder booked as a sale: whether the Position row and
\* the totals were changed (applied), the price, the row's average price, the
\* size, the amount added to total_pnl, and whether the exchange had matched
\* the order.
NoBooking ==
  [sold |-> FALSE, applied |-> FALSE, price |-> 0, avg |-> 0, size |-> 0,
   pnl |-> 0, matched |-> FALSE]
Booking(applied, price, avg, size, pnl, matched) ==
  [sold |-> TRUE, applied |-> applied, price |-> price,
   avg |-> IF applied THEN avg ELSE 0, size |-> size,
   pnl |-> IF applied THEN pnl ELSE 0, matched |-> matched]

\* ------------------------------------------------------------ paper mode

\* A paper buy that skips the balance check.
SimulatePaperBuyUnchecked(side, price, bal, qty) ==
  LET total_cost == 10 * price * order_size + TakerFee(price, order_size)
  IN  IF price < TRIGGER_PRICE \/ price >= TARGET
      THEN [ok |-> FALSE, why |-> "rejected", bal |-> bal, qty |-> qty]
      ELSE [ok |-> TRUE, why |-> "opened", bal |-> bal - total_cost,
            qty |-> [qty EXCEPT ![side] = @ + order_size]]

\* _simulate_paper_order_unified, side "buy", with _update_paper_position_unified:
\* the balance and the Position row after the order, and whether an order id
\* was returned.
SimulatePaperBuy(side, price, bal, qty) ==
  LET total_cost == 10 * price * order_size + TakerFee(price, order_size)
  IN  IF price < TRIGGER_PRICE \/ price >= TARGET
      THEN [ok |-> FALSE, why |-> "rejected", bal |-> bal, qty |-> qty]
      ELSE IF bal < total_cost
      THEN [ok |-> FALSE, why |-> "insufficient", bal |-> bal, qty |-> qty]
      ELSE [ok |-> TRUE, why |-> "opened", bal |-> bal - total_cost,
            qty |-> [qty EXCEPT ![side] = @ + order_size]]

\* A paper sell that does not look at the quantity of the Position row.
SimulatePaperSellUnchecked(side, price, bal, qty) ==
  [bal |-> bal + 10 * price * order_size - TakerFee(price, order_size),
   qty |-> [qty EXCEPT ![side] = @ - order_size]]

\* _simulate_paper_order_unified, side "sell": an order id is always returned;
\* the Position row and the balance change only if the row holds the size.
SimulatePaperSell(side, price, bal, qty) ==
  IF qty[side] >= order_size
  THEN [bal |-> bal + 10 * price * order_size - TakerFee(price, order_size),
        qty |-> [qty EXCEPT ![side] = @ - order_size]]
  ELSE [bal |-> bal, qty |-> qty]

\* _place_paper_entry_unified.  should_place: the BTC price filter is off, or
\* btc_service.should_place_order allowed the order.
PlacePaperEntry(side, price, tfe, should_place, s, bal, qty) ==
  IF tfe # None /\ tfe <= ENTRY_NO_BUY_THRESHOLD
  THEN [st |-> s, bal |-> bal, qty |-> qty, outcome |-> "blocked"]
  ELSE IF ~should_place
  THEN [st |-> s, bal |-> bal, qty |-> qty, outcome |-> "btc_blocked"]
  ELSE IF price < TRIGGER_PRICE \/ price >= TARGET
  THEN [st |-> s, bal |-> bal, qty |-> qty, outcome |-> "rejected"]
  ELSE LET r == SimulatePaperBuy(side, price, bal, qty)
       IN  [st |-> IF r.ok
                   THEN [s EXCEPT !.position_open = TRUE,
                                  !.entry_price = price,
                                  !.entry_side = side]
                   ELSE s,
            bal |-> r.bal, qty |-> r.qty, outcome |-> r.why]

\* The Trade rows a paper cycle writes (_record_trade): one for a buy that
\* returned an order id, one for the sell of an exit that had a price.
PaperRecorded(outcome, exit) ==
  (IF outcome = "opened" THEN 1 ELSE 0)
  + (IF exit \in {"none", "5SEC_EXPIRY_NO_PRICE"} THEN 0 ELSE 1)

\* What a paper cycle adds to BotState.trades_count
\* (_update_paper_position_unified): one for a buy, one for a sell the
\* Position row held the size of.
PaperCounted(outcome, row_changed) ==
  IF outcome = "opened" \/ row_changed THEN 1 ELSE 0

\* _exit_paper_position_unified
ExitPaperPosition(exit_price, s, bal, qty) ==
  LET r == SimulatePaperSell(s.entry_side, exit_price, bal, qty)
  IN  [st |-> PaperClose(s), bal |-> r.bal, qty |-> r.qty]

\* A strategy that does not look at the open position.
IgnoreOpenPosition(s) == FALSE

\* The check both strategies make before they look for an entry: a position
\* is open (pending or filled).
HasOpenPosition(s) == s.position_open

\* A strategy without the limit on the positions of a market.
MaxPositionsNeverReached(s) == FALSE

\* The check both strategies make before they monitor or enter:
\* positions_taken >= max_positions.
MaxPositionsReached(s) == s.positions_taken >= max_positions_per_market

\* An entry rule without the re-entry limit.
EntrySignalNoReentryLimit(yes_price, no_price, positions_taken) ==
  LET Accept(p) == p >= TRIGGER_PRICE /\ p < TARGET
  IN  IF Accept(yes_price) THEN "YES"
      ELSE IF Accept(no_price) THEN "NO"
      ELSE "None"

\* The entry rule of both strategies: the token to enter, or "None".
EntrySignal(yes_price, no_price, positions_taken) ==
  LET is_reentry == positions_taken > 0
      Accept(p) == /\ p >= TRIGGER_PRICE
                   /\ p < TARGET
                   /\ ~(is_reentry /\ p >= REENTRY_MAX_PRICE)
  IN  IF Accept(yes_price) THEN "YES"
      ELSE IF Accept(no_price) THEN "NO"
      ELSE "None"

\* _execute_paper_trading_strategy on a market whose time to close reads
\* time_to_close, with the quotes (yes_price, no_price), the entry token's price
\* cur read by the monitor and the exit handlers, and the clock tfe read by
\* _place_paper_entry_unified.  s, bal, qty: the paper state, the balance and
\* the Position rows the cycle starts from.
PaperStrategy(time_to_close, yes_price, no_price, cur, tfe, should_place, s, bal, qty) ==
  LET same(act) == [st |-> s, bal |-> bal, qty |-> qty, act |-> act,
                    entry |-> "None", outcome |-> "none", exit |-> "none"]
      exited(act, reason, price) ==
        LET r == ExitPaperPosition(price, s, bal, qty)
        IN  [st |-> r.st, bal |-> r.bal, qty |-> r.qty, act |-> act,
             entry |-> "None", outcome |-> "none", exit |-> reason]
      signal == EntrySignal(yes_price, no_price, s.positions_taken)
  IN  IF yes_price = None \/ no_price = None THEN same("no_prices")
      ELSE IF time_to_close <= PAPER_FORCE_CLOSE_THRESHOLD THEN
        \* _force_close_paper_position
        IF ~s.position_open THEN same("force_close")
        ELSE IF cur # None THEN exited("force_close", "5SEC_EXPIRY", cur)
        ELSE [same("force_close") EXCEPT !.st = PaperClose(s),
                                         !.exit = "5SEC_EXPIRY_NO_PRICE"]
      ELSE IF time_to_close <= ORDER_CANCEL_THRESHOLD THEN
        \* _handle_market_close_paper
        IF s.position_open /\ cur # None
        THEN exited("market_close", "MARKET_CLOSE", cur)
        ELSE same("market_close")
      ELSE IF MaxPositionsReached(s)
      THEN same("max_positions")
      ELSE IF HasOpenPosition(s) THEN
        \* _monitor_paper_position_unified
        IF cur = None THEN same("monitor")
        ELSE IF cur >= TARGET THEN exited("monitor", "TARGET", TARGET)
        ELSE IF cur <= CalculateStoploss(s.entry_price)
        THEN exited("monitor", "STOPLOSS", cur)
        ELSE same("monitor")
      ELSE IF time_to_close <= PAPER_NO_BUY_THRESHOLD THEN same("no_buy")
      ELSE IF time_to_close > PAPER_EARLY_BUY_THRESHOLD THEN same("early")
      ELSE IF signal = "None" THEN same("no_signal")
      ELSE LET price == IF signal = "YES" THEN yes_price ELSE no_price
               r == PlacePaperEntry(signal, price, tfe, should_place, s, bal,
                                    qty)
           IN  [st |-> r.st, bal |-> r.bal, qty |-> r.qty, act |-> "entry",
                entry |-> signal, outcome |-> r.outcome, exit |-> "none"]

\* Whether the paper strategy reaches _place_paper_entry_unified, which reads
\* the clock once more.
PaperReachesEntry(time_to_close, yes_price, no_price, s) ==
  /\ yes_price # None /\ no_price # None
  /\ time_to_close > ORDER_CANCEL_THRESHOLD
  /\ time_to_close > PAPER_FORCE_CLOSE_THRESHOLD
  /\ ~s.position_open

\* One pass of the _run_strategy loop in paper mode: the market found, the
\* reset on a new market, _execute_trading_logic, _monitor_positions (which
\* returns at once) and the sleep.  cur_ok: get_current_price of the entry
\* token answers (with the price the cycle's quote shows).
PaperCycle ==
  /\ running
  /\ pc = "idle"
  /\ paper_trading
  /\ LET m == FeedMarket(now)
         fresh == IsNewMarket(m)
         rotated == m.id # market_id
         s0 == IF fresh THEN PaperReset ELSE paper_state
         q0 == IF rotated THEN [x \in Sides |-> 0] ELSE position_qty
         a0 == IF rotated THEN [x \in Sides |-> 0] ELSE avg_price
     IN  /\ m.id # None
         /\ \E tok \in {k \in MarketTokens : TokensUsable(k)} :
            \E time_to_close \in Steps(m.time_to_close) :
            \E q \in (IF s0.position_open
                      THEN OpenQuotes(s0.entry_side, time_to_close)
                      ELSE Quotes) :
            \E cur_ok \in (IF s0.position_open THEN BOOLEAN ELSE {FALSE}) :
            \E tfe \in (IF PaperReachesEntry(time_to_close, q[1], q[2], s0)
                        THEN EntryReadings(time_to_close) ELSE {None}) :
            \E should_place \in
                 (IF tfe = None
                     /\ PaperReachesEntry(time_to_close, q[1], q[2], s0)
                  THEN BOOLEAN ELSE {TRUE}) :
              LET cur == IF cur_ok THEN QuoteOf(q, s0.entry_side) ELSE None
                  r == PaperStrategy(time_to_close, q[1], q[2], cur, tfe,
                                     should_place, s0, paper_balance, q0)
              IN  /\ r.act = "entry" => trades < MaxTrades
                  /\ trades' = IF r.act = "entry" THEN trades + 1 ELSE trades
                  /\ paper_state' = r.st
                  /\ window_full' = WindowFull(rotated, r.st)
                  /\ paper_balance' = r.bal
                  /\ position_qty' = r.qty
                  /\ avg_price' = AvgAfter(q0, r.qty, a0,
                                           QuoteOf(q, r.entry))
                  /\ now' = time_to_close
                  /\ cyc' = [act |-> r.act, t |-> time_to_close,
                             yes |-> q[1], no |-> q[2], cur |-> cur,
                             tokens |-> tok,
                             open0 |-> s0.position_open,
                             filled0 |-> s0.position_open,
                             taken0 |-> s0.positions_taken,
                             new_market |-> fresh,
                             sell_done0 |-> FALSE,
                             entry |-> r.entry, outcome |-> r.outcome,
                             exit |-> r.exit,
                             recorded |-> PaperRecorded(r.outcome, r.exit),
                             counted |-> PaperCounted(r.outcome, r.qty # q0),
                             booked |->
                               IF r.exit \in {"none", "5SEC_EXPIRY_NO_PRICE"}
                               THEN NoBooking
                               ELSE LET price == IF r.exit = "TARGET"
                                                 THEN TARGET ELSE cur
                                        avg == a0[s0.entry_side]
                                    IN  Booking(r.qty # q0, price, avg,
                                                order_size,
                                                PaperPnl(price, avg,
                                                         order_size),
                                                TRUE)]
         /\ market_id' = m.id
         /\ current_market' = m.id
         /\ live_state' = IF fresh THEN LiveReset ELSE live_state
         /\ active_orders' = IF rotated THEN {} ELSE active_orders
         /\ wallet' = IF rotated THEN [x \in Sides |-> 0] ELSE wallet
  /\ lad' = NoLadder
  /\ UNCHANGED <<calc, starts, paper_trading, running, pc, entry_order>>

\* ------------------------------------------------------------- live mode

\* The branch _execute_live_trading_strategy takes.
LiveAct(time_to_close, yes_price, no_price, s) ==
  IF yes_price = None \/ no_price = None THEN "no_prices"
  ELSE IF time_to_close <= LIVE_FORCE_CLOSE_THRESHOLD THEN "force_close"
  ELSE IF time_to_close <= ORDER_CANCEL_THRESHOLD THEN "market_close"
  ELSE IF MaxPositionsReached(s) THEN "max_positions"
  ELSE IF HasOpenPosition(s) THEN "monitor"
  ELSE IF time_to_close <= LIVE_NO_BUY_THRESHOLD THEN "no_buy"
  ELSE IF time_to_close > LIVE_EARLY_BUY_THRESHOLD THEN "early"
  ELSE IF EntrySignal(yes_price, no_price, s.positions_taken) = "None"
  THEN "no_signal"
  ELSE "entry"

\* What a step of the live strategy leaves: the live state, the duplicate-order
\* keys, the wallet, the Position rows, where the task goes next, the ladder it
\* starts, and what it did.
Res(st, ao, w, qty, next, l, entry, outcome, exit) ==
  [st |-> st, ao |-> ao, w |-> w, qty |-> qty, next |-> next, lad |-> l,
   entry |-> entry, outcome |-> outcome, exit |-> exit]

\* _update_live_position, side "buy": the Position row of the token.
UpdateLivePositionBuy(token, size, qty) ==
  [qty EXCEPT ![token] = @ + size]

\* _update_live_position, side "sell": the row changes only if it holds the size.
UpdateLivePositionSell(token, size, qty) ==
  IF qty[token] >= size THEN [qty EXCEPT ![token] = @ - size] ELSE qty

\* _close_live_position: the duplicate-order keys of the entry token are
\* deleted and the state is closed.
CloseLivePosition(s, ao) ==
  [st |-> LiveClose(s),
   ao |-> ao \ {<<s.entry_side, "buy">>, <<s.entry_side, "sell">>}]

\* get_conditional_balance of the entry token: the wallet, or None when the
\* call fails.
ConditionalBalance(bal_ok, s, w) ==
  IF bal_ok THEN w[s.entry_side] ELSE None

\* The price of attempt k of a ladder below the last: the k-th level of the
\* book, or, the book missing, current_price + k * increment (at most 0.99)
\* when buying and current_price - k * reduction (at least 0.01) when selling.
\* The book is taken to show exactly those levels.
LadderPrice(l) ==
  IF l.kind = "buy"
  THEN Min(l.price0 + l.attempt * FALLBACK_PRICE_INCREMENT, MAX_PRICE)
  ELSE Max(l.price0 - l.attempt * FALLBACK_PRICE_REDUCTION, MIN_PRICE)

\* A ladder that goes on for one attempt more.
RetriesOneMore(l) ==
  1 + (IF l.kind = "buy" THEN MAX_BUY_RETRIES ELSE MAX_SELL_RETRIES)

\* The number of attempts of a ladder.
Retries(l) ==
  IF l.kind = "buy" THEN MAX_BUY_RETRIES ELSE MAX_SELL_RETRIES

\* The ladder a buy or a sell starts with.  nlimit, nfok: the limit and the
\* Fill-Or-Kill orders the exchange accepted so far; call_failed: a placement
\* failed at the exchange; resting: an order of the ladder is still on the
\* book; overlap: an order was submitted while another rested; late: a buy
\* order was submitted at or past the handler's threshold; earlier: the
\* tokens matched so far by orders of attempts that did not report a fill;
\* from_earlier: how many of them the filled size recorded at the end counts;
\* won: an attempt reported a fill; after_fill: an order was submitted after
\* an attempt had reported a fill; attempted0: sell_attempted as _market_sell
\* found it.
NewLadder(kind, side, price0, size, reason) ==
  [kind |-> kind, side |-> side, attempt |-> 1, price0 |-> price0,
   size |-> size, reason |-> reason, nlimit |-> 0, nfok |-> 0,
   call_failed |-> FALSE, resting |-> FALSE, overlap |-> FALSE,
   late |-> FALSE, earlier |-> 0, from_earlier |-> 0, won |-> FALSE,
   after_fill |-> FALSE, attempted0 |-> FALSE, result |-> "running"]

\* What is kept of a ladder once its retry loop has ended.
EndLadder(l) ==
  [l EXCEPT !.side = "None", !.attempt = 0, !.price0 = 0, !.size = 0,
            !.reason = "none", !.attempted0 = FALSE]

\* _market_sell up to its retry loop: the repeated-sell check, the balance read
\* and the sell size.  bal_ok: get_conditional_balance answers.
MarketSell(cur, reason, bal_ok, s, ao, w, qty) ==
  LET actual_balance == ConditionalBalance(bal_ok, s, w)
      s1 == [s EXCEPT !.sell_attempted = TRUE]
      closed(st, why) ==
        LET c == CloseLivePosition(st, ao)
        IN  Res(c.st, c.ao, w, qty, "idle", NoLadder, "None", "none",
                reason \o why)
      sell_size ==
        IF actual_balance # None THEN actual_balance
        ELSE IF s.filled_size > 0 THEN s.filled_size ELSE order_size
  IN  IF s.sell_attempted
         /\ (actual_balance = None \/ actual_balance < MIN_ORDER_SIZE)
      THEN closed(s, "_CONFIRMED")
      ELSE IF actual_balance # None /\ actual_balance < MIN_ORDER_SIZE
      THEN closed(s1, "_DUST")
      ELSE Res(s1, ao, w, qty, "sell",
               [NewLadder("sell", s.entry_side, cur, sell_size, reason)
                  EXCEPT !.attempted0 = s.sell_attempted],
               "None", "none", "none")

\* The size _market_sell and _target_sell sell: the balance of the entry
\* token, or, the balance read failing, the recorded filled size (the
\* configured order size when none is recorded).
SellSize(bal_ok, s, w) ==
  IF ConditionalBalance(bal_ok, s, w) # None
  THEN ConditionalBalance(bal_ok, s, w)
  ELSE IF s.filled_size > 0 THEN s.filled_size ELSE order_size

\* _target_sell: one limit order at the target price through _place_order; an
\* order that was placed is booked as sold.  place: what _place_order returns
\* when the key is free; tfill: the exchange matches the order.
TargetSell(bal_ok, place, tfill, s, ao, w, qty) ==
  LET actual_balance == ConditionalBalance(bal_ok, s, w)
      s1 == [s EXCEPT !.sell_attempted = TRUE]
      key == <<s.entry_side, "sell">>
      closed(st, why) ==
        LET c == CloseLivePosition(st, ao)
        IN  Res(c.st, c.ao, w, qty, "idle", NoLadder, "None", "none", why)
      sell_size ==
        IF actual_balance # None THEN actual_balance
        ELSE IF s.filled_size > 0 THEN s.filled_size ELSE order_size
  IN  IF s.sell_attempted
         /\ (actual_balance = None \/ actual_balance < MIN_ORDER_SIZE)
      THEN closed(s, "TARGET_CONFIRMED")
      ELSE IF actual_balance # None /\ actual_balance < MIN_ORDER_SIZE
      THEN closed(s1, "TARGET_DUST")
      ELSE IF key \in ao \/ place = "fail"
      THEN Res(s1, ao, w, qty, "idle", NoLadder, "None", "none", "none")
      ELSE LET c == CloseLivePosition(s1, ao \cup {key})
           IN  Res(c.st, c.ao,
                   IF tfill
                   THEN [w EXCEPT ![s.entry_side] = Max(@ - sell_size, 0)]
                   ELSE w,
                   UpdateLivePositionSell(s.entry_side, sell_size, qty),
                   "idle", NoLadder, "None", "none", "TARGET")

\* _handle_market_close_live: an unfilled buy order is cancelled and forgotten;
\* an open position is left to settle.
HandleMarketCloseLive(s) ==
  IF s.buy_order_id /\ ~s.buy_filled THEN [s EXCEPT !.buy_order_id = FALSE]
  ELSE s

\* _force_close_live_position.  cur: get_current_price of the entry token.
ForceCloseLive(cur, bal_ok, s, ao, w, qty) ==
  LET s1 == HandleMarketCloseLive(s)
      closed(why) ==
        LET c == CloseLivePosition(s1, ao)
        IN  Res(c.st, c.ao, w, qty, "idle", NoLadder, "None", "none", why)
  IN  IF s1.position_open /\ s1.buy_filled
      THEN IF cur # None
           THEN MarketSell(cur, "5SEC_EXPIRY", bal_ok, s1, ao, w, qty)
           ELSE closed("5SEC_EXPIRY_NO_PRICE")
      ELSE IF s1.position_open THEN closed("5SEC_EXPIRY_UNFILLED")
      ELSE Res(s1, ao, w, qty, "idle", NoLadder, "None", "none", "none")

\* _check_order_filled.  confirm: get_order (or get_trades) answers for the
\* order; eo: what the exchange holds of it.  An order reported FILLED, MATCHED
\* or LIVE, or with a matched size, counts as filled.
CheckOrderFilled(confirm, eo) == confirm /\ eo \in {"matched", "resting"}

\* _monitor_live_position
MonitorLive(x, eo, s, ao, w, qty) ==
  LET same == Res(s, ao, w, qty, "idle", NoLadder, "None", "none", "none")
  IN  IF ~s.buy_filled /\ s.buy_order_id
      THEN IF CheckOrderFilled(x.confirm, eo)
           THEN LET size_matched == IF eo = "matched" THEN order_size ELSE 0
                    size == IF size_matched > 0 THEN size_matched
                            ELSE order_size
                IN  Res([s EXCEPT !.buy_filled = TRUE,
                                  !.filled_size = size_matched],
                        ao, w,
                        UpdateLivePositionBuy(s.entry_side, size, qty),
                        "idle", NoLadder, "None", "confirmed", "none")
           ELSE same
      ELSE IF x.cur = None THEN same
      ELSE IF x.cur >= TARGET
      THEN TargetSell(x.bal_ok, x.place, x.tfill, s, ao, w, qty)
      ELSE IF x.cur <= s.stoploss_price
      THEN MarketSell(x.cur, "STOPLOSS", x.bal_ok, s, ao, w, qty)
      ELSE same

\* _place_live_entry up to its retry loop: the time check, the BTC price filter
\* and the prices of the ladder.  x.t: the time to close when the handler
\* runs; x.read_ok: get_time_to_close answers.
PlaceLiveEntry(side, price, x, s, ao, w, qty) ==
  IF x.read_ok /\ x.t <= ENTRY_NO_BUY_THRESHOLD
  THEN Res(s, ao, w, qty, "idle", NoLadder, side, "blocked", "none")
  ELSE IF ~x.should_place
  THEN Res(s, ao, w, qty, "idle", NoLadder, side, "btc_blocked", "none")
  ELSE Res(s, ao, w, qty, "buy",
           NewLadder("buy", side, price, order_size, "ENTRY"),
           side, "ladder", "none")

\* _execute_live_trading_strategy
LiveStrategy(time_to_close, yes_price, no_price, x, eo, s, ao, w, qty) ==
  LET act == LiveAct(time_to_close, yes_price, no_price, s)
      signal == EntrySignal(yes_price, no_price, s.positions_taken)
      same == Res(s, ao, w, qty, "idle", NoLadder, "None", "none", "none")
  IN  CASE act = "force_close" ->
             ForceCloseLive(x.cur, x.bal_ok, s, ao, w, qty)
        [] act = "market_close" ->
             [same EXCEPT !.st = HandleMarketCloseLive(s)]
        [] act = "monitor" -> MonitorLive(x, eo, s, ao, w, qty)
        [] act = "entry" ->
             PlaceLiveEntry(signal,
                            IF signal = "YES" THEN yes_price ELSE no_price,
                            x, s, ao, w, qty)
        [] OTHER -> same

\* The answers of the exchange and of the clock a live cycle can read, by the
\* branch it takes: only the answers the branch reads vary.  price: what
\* get_current_price of the entry token answers when it answers (the price the
\* cycle's quote shows).  Before a sell the balance read answers; a target
\* order that was placed is matched or rests on the book.
LiveInputs(act, time_to_close, price, s) ==
  LET d == [cur |-> None, bal_ok |-> TRUE, confirm |-> FALSE, place |-> "ok",
            tfill |-> TRUE, t |-> time_to_close, read_ok |-> TRUE,
            should_place |-> TRUE]
      priced == {[d EXCEPT !.cur = price]}
      target == {[d EXCEPT !.cur = price, !.place = p] : p \in {"ok", "fail"}}
                \cup {[d EXCEPT !.cur = price, !.tfill = FALSE]}
      late == {u \in LadderTimes(time_to_close) : u <= ENTRY_NO_BUY_THRESHOLD}
  IN  CASE act = "force_close" /\ s.position_open /\ s.buy_filled ->
             {d} \cup priced
        [] act = "monitor" /\ ~s.buy_filled /\ s.buy_order_id ->
             {[d EXCEPT !.confirm = c] : c \in BOOLEAN}
        [] act = "monitor" /\ price >= TARGET -> {d} \cup target
        [] act = "monitor" /\ price <= s.stoploss_price -> {d} \cup priced
        [] act = "monitor" -> {d, [d EXCEPT !.cur = price]}
        [] act = "entry" ->
             {d, [d EXCEPT !.should_place = FALSE]}
             \cup {[d EXCEPT !.t = t, !.read_ok = r] :
                     t \in late, r \in BOOLEAN}
        [] OTHER -> {d}

\* A sell order of the retry loop that just ended without a reported fill is
\* still on the book: the exchange can match it before the next cycle.  The
\* case is followed for the last position MaxTrades allows.
SellOrderResting(rotated) ==
  /\ ~rotated
  /\ trades = MaxTrades
  /\ lad # NoLadder
  /\ lad.kind = "sell"
  /\ lad.result = "failed"
  /\ lad.resting
  /\ live_state.position_open
  /\ live_state.sell_attempted

\* One pass of the _run_strategy loop in live mode, up to the retry loop of a
\* buy or of a sell, which BuyAttempt and SellAttempt run.  sold: the resting
\* sell order was matched since the loop ended.
LiveCycle ==
  /\ running
  /\ pc = "idle"
  /\ ~paper_trading
  /\ LET m == FeedMarket(now)
         fresh == IsNewMarket(m)
         rotated == m.id # market_id
         s0 == IF fresh THEN LiveReset ELSE live_state
         ao0 == IF rotated THEN {} ELSE active_orders
         q0 == IF rotated THEN [x \in Sides |-> 0] ELSE position_qty
         a0 == IF rotated THEN [x \in Sides |-> 0] ELSE avg_price
         eo0 == IF fresh THEN "none" ELSE entry_order
     IN  /\ m.id # None
         /\ \E tok \in {k \in MarketTokens : TokensUsable(k)} :
            \E time_to_close \in Steps(m.time_to_close) :
            \E q \in (IF s0.position_open
                      THEN OpenQuotes(s0.entry_side, time_to_close)
                      ELSE Quotes) :
            \E sold \in (IF SellOrderResting(rotated) THEN BOOLEAN
                         ELSE {FALSE}) :
              LET w0 == IF rotated THEN [x \in Sides |-> 0]
                        ELSE IF sold
                        THEN [wallet EXCEPT ![s0.entry_side] = 0]
                        ELSE wallet
                  act == LiveAct(time_to_close, q[1], q[2], s0)
              IN  \E x \in LiveInputs(act, time_to_close,
                                      QuoteOf(q, s0.entry_side), s0) :
                    LET r == LiveStrategy(time_to_close, q[1], q[2], x, eo0,
                                          s0, ao0, w0, q0)
                    IN  /\ act = "entry" => trades < MaxTrades
                        /\ trades' = IF act = "entry" THEN trades + 1
                                     ELSE trades
                        /\ live_state' = r.st
                        /\ window_full' = WindowFull(rotated, r.st)
                        /\ active_orders' = r.ao
                        /\ wallet' = r.w
                        /\ position_qty' = r.qty
                        /\ avg_price' = AvgAfter(q0, r.qty, a0,
                                                 s0.entry_price)
                        /\ pc' = r.next
                        /\ lad' = r.lad
                        /\ entry_order' = IF r.st.position_open THEN eo0
                                          ELSE "none"
                        /\ now' = x.t
                        /\ cyc' = [act |-> act, t |-> time_to_close,
                                   yes |-> q[1], no |-> q[2], cur |-> x.cur,
                                   tokens |-> tok,
                                   open0 |-> s0.position_open,
                                   filled0 |-> s0.buy_filled,
                                   taken0 |-> s0.positions_taken,
                                   new_market |-> fresh,
                                   sell_done0 |->
                                     /\ s0.position_open
                                     /\ s0.sell_attempted
                                     /\ w0[s0.entry_side] < MIN_ORDER_SIZE,
                                   entry |-> r.entry, outcome |-> r.outcome,
                                   exit |-> r.exit,
                                   booked |->
                                     IF r.exit # "TARGET" THEN NoBooking
                                     ELSE LET avg == a0[s0.entry_side]
                                              size == SellSize(x.bal_ok, s0,
                                                               w0)
                                          IN  Booking(r.qty # q0, TARGET,
                                                      avg, size,
                                                      LivePnl(TARGET, avg,
                                                              size),
                                                      x.tfill)]
         /\ market_id' = m.id
         /\ current_market' = m.id
         /\ paper_state' = IF fresh THEN PaperReset ELSE paper_state
  /\ UNCHANGED <<calc, starts, paper_trading, running, paper_balance>>

\* One pass of the _run_strategy loop on a market whose token list
\* _execute_trading_logic cannot use, in either mode: the loop takes the
\* market (with the reset on a new market), _execute_trading_logic logs a
\* warning and returns, _monitor_positions returns at once, and the loop
\* sleeps.
MalformedCycle ==
  /\ running
  /\ pc = "idle"
  /\ LET m == FeedMarket(now)
         fresh == IsNewMarket(m)
         rotated == m.id # market_id
         p0 == IF fresh THEN PaperReset ELSE paper_state
         s0 == IF fresh THEN LiveReset ELSE live_state
     IN  /\ m.id # None
         /\ \E tok \in {k \in MarketTokens : ~TokensUsable(k)} :
            \E time_to_close \in Steps(m.time_to_close) :
              /\ now' = time_to_close
              /\ cyc' = [act |-> "malformed", t |-> time_to_close,
                         yes |-> None, no |-> None, cur |-> None,
                         tokens |-> tok,
                         open0 |-> IF paper_trading THEN p0.position_open
                                   ELSE s0.position_open,
                         filled0 |-> IF paper_trading THEN p0.position_open
                                     ELSE s0.buy_filled,
                         taken0 |-> IF paper_trading THEN p0.positions_taken
                                    ELSE s0.positions_taken,
                         new_market |-> fresh, sell_done0 |-> FALSE,
                         entry |-> "None", outcome |-> "none",
                         exit |-> "none", recorded |-> 0, counted |-> 0,
                         booked |-> NoBooking]
         /\ paper_state' = p0
         /\ live_state' = s0
         /\ window_full' = WindowFull(rotated, IF paper_trading THEN p0 ELSE s0)
         /\ market_id' = m.id
         /\ current_market' = m.id
         /\ active_orders' = IF rotated THEN {} ELSE active_orders
         /\ wallet' = IF rotated THEN [x \in Sides |-> 0] ELSE wallet
         /\ position_qty' = IF rotated THEN [x \in Sides |-> 0]
                            ELSE position_qty
         /\ avg_price' = IF rotated THEN [x \in Sides |-> 0] ELSE avg_price
         /\ entry_order' = IF fresh THEN "none" ELSE entry_order
  /\ lad' = NoLadder
  /\ UNCHANGED <<calc, starts, paper_trading, running, pc, paper_balance,
                 trades>>

\* The answers of the exchange one attempt of a retry loop can read.  place:
\* what the placement returns ("dup": _place_order finds the key in
\* _active_orders; "ok": an order id; "fail": no order id).  status: check_order_status
\* of the order placed.  cancel: what the exchange holds of the order after
\* cancel_order and cancel_all_orders.  bal_ok: get_conditional_balance answers.
\* late_fill: a buy order of an earlier attempt that stayed on the book is
\* matched while this attempt waits for its own order.
AttemptInputs(l, ao) ==
  LET d == [place |-> "fail", status |-> "none", cancel |-> "none",
            bal_ok |-> TRUE, late_fill |-> FALSE]
      unfilled(st) ==
        IF l.kind = "sell"
        THEN {[d EXCEPT !.place = "ok", !.status = st, !.bal_ok = b] :
                b \in BOOLEAN}
        ELSE {[d EXCEPT !.place = "ok", !.status = st]}
  IN  IF l.attempt = Retries(l)
      THEN {d, [d EXCEPT !.place = "ok", !.status = "FILLED"]}
           \cup unfilled("DEAD")
           \cup (IF l.kind = "buy" /\ l.resting
                 THEN {[d EXCEPT !.place = "ok", !.status = "DEAD",
                                 !.late_fill = TRUE]}
                 ELSE {})
      ELSE IF <<l.side, l.kind>> \in ao THEN {[d EXCEPT !.place = "dup"]}
      ELSE {d}
           \cup {[d EXCEPT !.place = "ok", !.status = "FILLED"]}
           \cup {[d EXCEPT !.place = "ok", !.status = "LIVE", !.cancel = c] :
                   c \in {"done", "still_active"}}
           \cup (IF l.kind = "sell"
                 THEN {[d EXCEPT !.place = "ok", !.status = "LIVE",
                                 !.bal_ok = FALSE]}
                 ELSE {})

\* A retry loop that goes on after an attempt reported a fill.
AttemptResultNoBreak(success, final) ==
  IF ~final THEN "running" ELSE IF success THEN "filled" ELSE "failed"

\* How a pass of a retry loop leaves the loop: a fill breaks out of it, the
\* last attempt ends it, any other attempt is followed by the next.
AttemptResult(success, final) ==
  IF success THEN "filled" ELSE IF final THEN "failed" ELSE "running"

\* One pass of the retry loop of _place_live_entry (l.kind = "buy") or of
\* _market_sell (l.kind = "sell"), after the time check: the order placed, the
\* status check, the balance check, the cancellation.
LadderAttempt(l, ao, w0, x) ==
  LET key == <<l.side, l.kind>>
      w == IF x.late_fill THEN [w0 EXCEPT ![l.side] = @ + l.size] ELSE w0
      final == l.attempt = Retries(l)
      price == IF ~final THEN LadderPrice(l)
               ELSE IF l.kind = "buy" THEN MAX_PRICE ELSE MIN_PRICE
      accepted == IF x.place = "ok" THEN 1 ELSE 0
      has_id == accepted > 0
      by_status == has_id /\ x.status = "FILLED"
      by_balance ==
        /\ has_id
        /\ ~by_status
        /\ IF l.kind = "buy" THEN 10 * w[l.side] >= 9 * order_size
           ELSE ~x.bal_ok \/ w[l.side] < MIN_ORDER_SIZE
      success == by_status \/ by_balance
      matched == by_status \/ (by_balance /\ l.kind = "sell" /\ x.bal_ok)
      left == /\ has_id
              /\ x.status = "LIVE"
              /\ (by_balance \/ x.cancel = "still_active")
  IN  [lad |-> [l EXCEPT
                  !.attempt = IF AttemptResult(success, final) = "running"
                              THEN @ + 1 ELSE @,
                  !.nlimit = IF final THEN @ ELSE @ + accepted,
                  !.nfok = IF final THEN @ + accepted ELSE @,
                  !.call_failed = @ \/ x.place = "fail",
                  !.resting = @ \/ left,
                  !.overlap = @ \/ (has_id /\ l.resting),
                  !.earlier = IF x.late_fill THEN @ + l.size ELSE @,
                  !.from_earlier =
                    IF ~by_balance THEN 0
                    ELSE IF x.late_fill THEN l.earlier + l.size
                    ELSE l.earlier,
                  !.won = @ \/ success,
                  !.after_fill = @ \/ (has_id /\ l.won),
                  !.result = AttemptResult(success, final)],
       ao |-> IF has_id /\ ~final THEN ao \cup {key} ELSE ao,
       w |-> IF ~by_status THEN w
             ELSE IF l.kind = "buy" THEN [w EXCEPT ![l.side] = @ + l.size]
             ELSE [w EXCEPT ![l.side] = Max(@ - l.size, 0)],
       success |-> success,
       matched |-> matched,
       price |-> price,
       filled_size |-> IF by_status THEN l.size ELSE w[l.side],
       eo |-> IF by_status THEN "matched"
              ELSE IF x.status = "LIVE" THEN "resting" ELSE "dead"]

\* One pass of the retry loop of _place_live_entry, and what follows the loop
\* when it ends.  t: the time to close; read_ok: get_time_to_close answers.
BuyAttempt ==
  /\ pc = "buy"
  /\ \E t \in LadderTimes(now) :
     \E read_ok \in (IF t <= ENTRY_NO_BUY_THRESHOLD THEN BOOLEAN ELSE {TRUE}) :
       /\ now' = t
       /\ IF read_ok /\ t <= ENTRY_NO_BUY_THRESHOLD
          THEN /\ lad' = EndLadder([lad EXCEPT !.result = "aborted"])
               /\ pc' = "idle"
               /\ UNCHANGED <<live_state, active_orders, wallet, entry_order>>
          ELSE \E x \in AttemptInputs(lad, active_orders) :
                 LET r == LadderAttempt(lad, active_orders, wallet, x)
                     submitted ==
                       r.lad.nlimit + r.lad.nfok > lad.nlimit + lad.nfok
                     l1 == [r.lad EXCEPT
                              !.late = @ \/ (submitted
                                             /\ t <= ENTRY_NO_BUY_THRESHOLD)]
                 IN  /\ lad' = IF l1.result = "running" THEN l1
                                ELSE EndLadder(l1)
                     /\ active_orders' = r.ao
                     /\ wallet' = r.w
                     /\ pc' = IF r.lad.result = "running" THEN "buy" ELSE "idle"
                     /\ live_state' =
                          IF r.success
                          THEN [live_state EXCEPT
                                  !.buy_order_id = TRUE,
                                  !.entry_side = lad.side,
                                  !.entry_price = r.price,
                                  !.buy_filled = FALSE,
                                  !.position_open = TRUE,
                                  !.filled_size = r.filled_size,
                                  !.stoploss_price =
                                    CalculateStoploss(r.price)]
                          ELSE live_state
                     /\ entry_order' = IF r.success THEN r.eo ELSE entry_order
  /\ UNCHANGED <<calc, starts, paper_trading, running, market_id, current_market,
                 paper_state, paper_balance, position_qty, avg_price, cyc,
                 trades, window_full>>

\* One pass of the retry loop of _market_sell, and what follows the loop when
\* it ends.
SellAttempt ==
  /\ pc = "sell"
  /\ \E x \in AttemptInputs(lad, active_orders) :
       LET r == LadderAttempt(lad, active_orders, wallet, x)
           c == CloseLivePosition(live_state, r.ao)
       IN  /\ lad' = IF r.lad.result = "running" THEN r.lad
                      ELSE EndLadder(r.lad)
           /\ wallet' = r.w
           /\ pc' = IF r.lad.result = "running" THEN "sell" ELSE "idle"
           /\ live_state' = IF r.success THEN c.st ELSE live_state
           /\ window_full' =
                WindowFull(FALSE, IF r.success THEN c.st ELSE live_state)
           /\ active_orders' = IF r.success THEN c.ao ELSE r.ao
           /\ position_qty' =
                IF r.success
                THEN UpdateLivePositionSell(lad.side, lad.size, position_qty)
                ELSE position_qty
           /\ avg_price' =
                IF r.success
                THEN AvgAfter(position_qty,
                              UpdateLivePositionSell(lad.side, lad.size,
                                                     position_qty),
                              avg_price, 0)
                ELSE avg_price
           /\ entry_order' = IF r.success THEN "none" ELSE entry_order
           /\ cyc' = IF r.success
                     THEN [cyc EXCEPT
                             !.exit = lad.reason,
                             !.booked =
                               Booking(position_qty[lad.side] >= lad.size,
                                       r.price, avg_price[lad.side],
                                       lad.size,
                                       LivePnl(r.price, avg_price[lad.side],
                                               lad.size),
                                       r.matched)]
                     ELSE cyc
  /\ UNCHANGED <<calc, starts, paper_trading, running, now, market_id, current_market,
                 paper_state, paper_balance, trades>>

\* A cancellation the strategy task does not take.
CancelTaskIgnored(p, l) == [pc |-> p, lad |-> l]

\* self._task.cancel() and await self._task: the task ends where it is, in a
\* cycle's sleep or inside a retry loop, whose record is closed.
CancelTask(p, l) ==
  [pc |-> "stopped",
   lad |-> IF p \in {"buy", "sell"}
           THEN EndLadder([l EXCEPT !.result = "cancelled"])
           ELSE l]

\* stop() on a running bot: _running is cleared, the strategy task is
\* cancelled and awaited, then cancel_all_orders is called and the call
\* returns True.  cancelled: cancel_all_orders succeeds at the exchange.
Stop ==
  /\ running
  /\ running' = FALSE
  /\ pc' = CancelTask(pc, lad).pc
  /\ lad' = CancelTask(pc, lad).lad
  /\ \E cancelled \in BOOLEAN :
       entry_order' = IF cancelled /\ entry_order = "resting" THEN "dead"
                      ELSE entry_order
  /\ UNCHANGED <<calc, starts, paper_trading, now, market_id, current_market,
                 live_state, paper_state, active_orders, paper_balance,
                 position_qty, avg_price, wallet, cyc, trades, window_full>>

\* stop() on a bot that is not running: it returns False.
StopNotRunning ==
  /\ ~running
  /\ UNCHANGED vars

Next ==
  \/ Start
  \/ NoMarket
  \/ PaperCycle
  \/ LiveCycle
  \/ BuyAttempt
  \/ SellAttempt

Spec == Init /\ [][Next]_vars

\* ------------------------------------------------------------ properties

\* positions_taken of the mode the bot trades in.
PositionsTaken ==
  IF paper_trading THEN paper_state.positions_taken
  ELSE live_state.positions_taken

\* A position is open in the mode the bot trades in.
PositionOpen ==
  IF paper_trading THEN paper_state.position_open
  ELSE live_state.position_open

\* The thresholds of the strategy of the mode the bot trades in.
NoBuyThreshold ==
  IF paper_trading THEN PAPER_NO_BUY_THRESHOLD ELSE LIVE_NO_BUY_THRESHOLD
ForceCloseThreshold ==
  IF paper_trading THEN PAPER_FORCE_CLOSE_THRESHOLD
  ELSE LIVE_FORCE_CLOSE_THRESHOLD
EarlyBuyThreshold ==
  IF paper_trading THEN PAPER_EARLY_BUY_THRESHOLD
  ELSE LIVE_EARLY_BUY_THRESHOLD

\* A strategy cycle has run, and the bot is where it left it or in the retry
\* loop it started.
CycleRan == cyc.act # "none"

\* The last cycle started with no position open.
FlatCycle == CycleRan /\ ~cyc.open0

\* The entry rule as the specification words it, on the quotes and the
\* counter the last cycle started from.
Acceptable(p) ==
  /\ p # None
  /\ p >= TRIGGER_PRICE
  /\ p < TARGET
  /\ (cyc.taken0 = 0 \/ p < REENTRY_MAX_PRICE)
StatedGates ==
  /\ cyc.taken0 < max_positions_per_market
  /\ cyc.t > NoBuyThreshold
  /\ cyc.t <= EarlyBuyThreshold
CodeGates ==
  /\ StatedGates
  /\ cyc.yes # None
  /\ cyc.no # None
  /\ cyc.t > ForceCloseThreshold
  /\ cyc.t > ORDER_CANCEL_THRESHOLD
EntryMatches(gates) ==
  /\ cyc.entry = "YES" <=> (gates /\ Acceptable(cyc.yes))
  /\ cyc.entry = "NO" <=> (gates /\ ~Acceptable(cyc.yes) /\ Acceptable(cyc.no))

\* C1: positions_taken goes up by exactly 1 when an opened position is closed
\* by a completed exit and by 0 otherwise; in particular a pending entry that
\* is cancelled before its fill was confirmed leaves it unchanged.
C1_TakenCountsCompletedExits ==
  CycleRan =>
    PositionsTaken =
      cyc.taken0
      + (IF cyc.exit \notin {"none", "5SEC_EXPIRY_UNFILLED"} THEN 1 ELSE 0)

\* C2: no entry is initiated in a cycle that starts with position_open true,
\* in live and in paper mode, and no buy ladder runs while a position is open.
C2_NoEntryWhilePositionOpen ==
  /\ CycleRan => (cyc.entry # "None" => ~cyc.open0)
  /\ pc = "buy" => ~live_state.position_open

\* C2 witness: a cycle that started with a position open read quotes the entry
\* rule accepts and monitored the position instead of entering.
C2_Witness ==
  /\ CycleRan
  /\ cyc.open0
  /\ cyc.act = "monitor"
  /\ EntrySignal(cyc.yes, cyc.no, cyc.taken0) # "None"
  /\ cyc.entry = "None"

\* C3 as stated: in a cycle with no open position an entry for a token is
\* handed to the entry handler if and only if its price is in [trigger,
\* target), below the re-entry limit on a re-entry, positions_taken is below
\* the maximum and the time to close is above the no-buy threshold and not
\* above the early-window threshold; YES before NO.
C3_EntryIffStatedGates == FlatCycle => EntryMatches(StatedGates)

\* C3 amended: as C3, and in addition both quotes were obtained and the time to
\* close is above the force-close threshold and above the order-cancel
\* threshold.
C3_EntryIffCodeGates == FlatCycle => EntryMatches(CodeGates)

\* C3 witness: a re-entry on NO, YES being out of range.
C3_Witness ==
  /\ FlatCycle
  /\ cyc.act = "entry"
  /\ cyc.entry = "NO"
  /\ cyc.taken0 > 0

\* C4: a live cycle that starts with a position open, pending or confirmed,
\* at or past the force-close threshold starts the sell ladder, unless the
\* balance read shows that no tokens are held.
C4_ForceCloseSells ==
  (/\ CycleRan
   /\ ~paper_trading
   /\ cyc.act = "force_close"
   /\ cyc.open0
   /\ cyc.exit \notin {"5SEC_EXPIRY_DUST", "5SEC_EXPIRY_CONFIRMED"})
  => (lad # NoLadder /\ lad.kind = "sell")

\* C5: the reset on a window change never discards a position that is still
\* open.
C5_ResetKeepsNoOpenPosition ==
  [][(current_market # None /\ current_market' # current_market)
       => ~PositionOpen]_vars

\* C6: a ladder that ends with no attempt filled, the deadline not crossed and
\* no placement failing at the exchange has submitted exactly 4 limit orders
\* and then one Fill-Or-Kill order.
C6_FourLimitsThenFok ==
  (/\ lad # NoLadder
   /\ lad.result = "failed"
   /\ ~lad.call_failed)
  => (lad.nlimit = Retries(lad) - 1 /\ lad.nfok = 1)

\* C7: no order of a ladder is submitted while an earlier order of the same
\* ladder, for the same token and side, is still on the book.
C7_NoOverlappingOrders == lad # NoLadder => ~lad.overlap

\* C8: no buy order is submitted at a moment when the time to close is at or
\* below the no-buy threshold of the entry handler, and a ladder aborted by the
\* deadline leaves no order of its own on the book and opens no position.
C8_DeadlineGuardsEveryAttempt ==
  (lad # NoLadder /\ lad.kind = "buy")
  => /\ ~lad.late
     /\ lad.result = "aborted"
          => (~lad.resting /\ ~live_state.position_open)

\* C9: a live cycle at or past the force-close threshold that starts with an
\* entry whose fill is not yet confirmed leaves no position and leaves
\* positions_taken as it was.
C9_PendingEntryCancelledUncounted ==
  (/\ CycleRan
   /\ ~paper_trading
   /\ cyc.act = "force_close"
   /\ cyc.open0
   /\ ~cyc.filled0)
  => (~live_state.position_open /\ live_state.positions_taken = cyc.taken0)

\* C10: a live cycle above the force-close threshold that starts with a
\* confirmed position whose price is at or above the target, or at or below
\* the stoploss, initiates an exit: the position is closed or a sell was
\* attempted.  The price is the one the monitor read, or, the monitor not
\* running, the quote of the entry token the cycle fetched.
C10_MonitoredAboveForceClose ==
  LET price == IF cyc.act = "monitor" THEN cyc.cur
               ELSE QuoteOf(<<cyc.yes, cyc.no>>, live_state.entry_side)
  IN  (/\ CycleRan
       /\ ~paper_trading
       /\ cyc.open0
       /\ cyc.filled0
       /\ cyc.t > LIVE_FORCE_CLOSE_THRESHOLD
       /\ live_state.position_open
       /\ cyc.yes # None /\ cyc.no # None
       /\ price # None
       /\ (price >= TARGET \/ price <= live_state.stoploss_price))
      => live_state.sell_attempted

\* C11: every open position, in live and in paper mode and whichever ladder
\* attempt filled it, has a recorded entry price with
\* trigger <= entry_price < target.
C11_EntryPriceInRange ==
  /\ paper_state.position_open
       => (paper_state.entry_price >= TRIGGER_PRICE
           /\ paper_state.entry_price < TARGET)
  /\ live_state.position_open
       => (live_state.entry_price >= TRIGGER_PRICE
           /\ live_state.entry_price < TARGET)

\* C12: the ledger (position quantity, cumulative P&L, win/loss counts, trade
\* status FILLED) is changed only by fills the exchange confirmed: whenever a
\* sale was booked, by the stoploss ladder, the target sell or the force
\* close, the exchange had matched the order.
C12_LedgerOnlyOnConfirmedFills ==
  (CycleRan /\ cyc.booked.sold) => cyc.booked.matched

\* C13: parity of the two modes.  The live and the paper strategy, given the
\* same quotes and the same time to close and starting with no position open
\* and the same count of positions taken, open a position in the same cycles:
\* one reaches its entry handler exactly when the other does.
C13_LivePaperParity ==
  FlatCycle =>
    ((LiveAct(cyc.t, cyc.yes, cyc.no,
              [LiveReset EXCEPT !.positions_taken = cyc.taken0]) = "entry")
     <=> (PaperStrategy(cyc.t, cyc.yes, cyc.no, None, None, TRUE,
                        [PaperReset EXCEPT !.positions_taken = cyc.taken0],
                        DefaultBalance, [t \in Sides |-> 0]).act = "entry"))

\* netPnl of a sale as the specification defines it, in thousandths of a
\* dollar: (sell - avg) * size - fee(avg * size) - fee(sell * size), with
\* fee(v) = max(v * rate, minFee).
NetPnl(sell, avg, size) ==
  LET fee(v) == Max((v * TAKER_FEE_PER_MILLE) \div 1000, MIN_TAKER_FEE)
  IN  (10 * sell - avg) * size - fee(avg * size) - fee(10 * sell * size)

\* C14: on every sell fill applied to the ledger, in live and in paper mode,
\* the amount added to the cumulative P&L and used for the win/loss decision
\* is netPnl = (sell - avg) * size - fee(avg * size) - fee(sell * size).
C14_BookedPnlIsNet ==
  (CycleRan /\ cyc.booked.applied)
    => cyc.booked.pnl = NetPnl(cyc.booked.price, cyc.booked.avg,
                               cyc.booked.size)

\* ------------------------------------------- the stoploss price alone

\* The prices a position can be opened at, in tenths of a cent: the midpoint
\* or the ask read from the exchange, at least the trigger and below the
\* target.
EntryPrices == (10 * TRIGGER_PRICE) .. (10 * TARGET - 1)

\* A position about to be opened at one of these prices.
StoplossInit ==
  /\ InitBot
  /\ paper_trading
  /\ paper_balance = DefaultBalance
  /\ calc \in {[op |-> "stoploss", entry_price |-> p, stoploss_price |-> None] :
                 p \in EntryPrices}

\* The stoploss of the position is calculated.
ApplyStoploss ==
  /\ calc.op = "stoploss"
  /\ calc.stoploss_price = None
  /\ calc' = [calc EXCEPT
                !.stoploss_price = CalculateStoplossPrice(calc.entry_price)]
  /\ UNCHANGED <<starts, paper_trading, running, pc, now, market_id,
                 current_market, live_state, paper_state, active_orders, paper_balance,
                 position_qty, avg_price, wallet, entry_order, lad, cyc,
                 trades, window_full>>

StoplossSpec == StoplossInit /\ [][ApplyStoploss]_vars

\* C15: the stoploss of a position is exactly max(entry price - 0.15, 0.01),
\* for every entry price a position can be opened at.
C15_StoplossIsEntryMinusOffset ==
  (calc.op = "stoploss" /\ calc.stoploss_price # None)
    => calc.stoploss_price = Max(calc.entry_price - 10 * STOPLOSS_OFFSET,
                                 10 * MIN_STOPLOSS)

\* C16: when a buy ladder ends with a position opened, the recorded filled
\* size is that of the single attempt that reported success: nothing matched
\* by the orders of earlier attempts of the same invocation is counted in it.
C16_FilledSizeOfWinningAttempt ==
  (lad # NoLadder /\ lad.kind = "buy" /\ lad.result = "filled")
    => lad.from_earlier = 0

\* The last live cycle started with a position open, a sell already attempted
\* for it and the balance of its token emptied.
SellDoneBefore ==
  /\ CycleRan
  /\ cyc.sell_done0

\* The exits of _market_sell and _target_sell that find the earlier sell done.
ConfirmedExits ==
  {"STOPLOSS_CONFIRMED", "5SEC_EXPIRY_CONFIRMED", "TARGET_CONFIRMED"}

\* C17: idempotence of the order paths.  A retry loop submits nothing after an
\* attempt reported a fill and is left at once.  A sell path invoked again
\* after an earlier sell attempt emptied the balance submits no new order (no
\* retry loop started, no target order booked), and when it closes the
\* position it counts it exactly once.
C17_FillPathsIdempotent ==
  /\ (lad # NoLadder /\ lad.won)
       => (~lad.after_fill /\ lad.result = "filled" /\ pc \notin {"buy", "sell"})
  /\ SellDoneBefore
       => /\ lad = NoLadder
          /\ ~cyc.booked.sold
          /\ cyc.exit \notin {"TARGET", "STOPLOSS", "5SEC_EXPIRY"}
          /\ cyc.exit \in ConfirmedExits
               => (~live_state.position_open
                   /\ live_state.positions_taken = cyc.taken0 + 1)

\* A sell path was invoked again on an emptied balance and closed the position.
C17_Witness ==
  SellDoneBefore /\ cyc.exit \in ConfirmedExits

\* ------------------------------------------------- with the stop() control

\* The moments at which both strategies take entries.
EntryTimes ==
  {t \in TimePoints : /\ t > ORDER_CANCEL_THRESHOLD
                      /\ t > PAPER_NO_BUY_THRESHOLD
                      /\ t <= LIVE_EARLY_BUY_THRESHOLD}

\* A bot that has been trading in the last window followed and has opened and
\* closed all the positions the window allows: it is running, between two
\* cycles, with no position open, nothing held and no order on the book.  One
\* more entry is followed.
ControlInit ==
  /\ paper_trading \in BOOLEAN
  /\ running = TRUE
  /\ pc = "idle"
  /\ now \in EntryTimes
  /\ market_id = MaxWindows
  /\ current_market = MaxWindows
  /\ live_state =
       [LiveReset EXCEPT !.positions_taken = max_positions_per_market]
  /\ paper_state =
       [PaperReset EXCEPT !.positions_taken = max_positions_per_market]
  /\ active_orders = {}
  /\ paper_balance = DefaultBalance
  /\ position_qty = [s \in Sides |-> 0]
  /\ avg_price = [s \in Sides |-> 0]
  /\ wallet = [s \in Sides |-> 0]
  /\ entry_order = "none"
  /\ lad = NoLadder
  /\ cyc = NoCycle
  /\ trades = MaxTrades - 1
  /\ window_full = TRUE
  /\ starts = 1
  /\ calc = NoCalc

ControlNext ==
  \/ Next
  \/ Stop
  \/ StopNotRunning

ControlSpec == ControlInit /\ [][ControlNext]_vars

\* C18: once positions_taken has reached max_positions in a window, no entry
\* is placed until the window rotates, whatever control operations (stop()
\* then start() included) happen in the window: no buy ladder runs and no
\* position is open while the window is full.
C18_NoEntryOnceWindowFull ==
  window_full => (pc # "buy" /\ ~PositionOpen)

\* C19: a cycle that observes a market id different from the one of the
\* cycle before evaluates its strategy with position_open false and
\* positions_taken 0 in both strategy states; a cycle that observes the same
\* market leaves the fields as they were.  (The market feed hands out only
\* markets with a positive time to close.)
C19_ResetExactlyOnNewMarket ==
  [][(cyc' # cyc /\ cyc'.act # "none")
       => IF current_market # None /\ current_market' # current_market
          THEN /\ ~cyc'.open0
               /\ cyc'.taken0 = 0
               /\ paper_trading => live_state' = LiveReset
               /\ ~paper_trading => paper_state' = PaperReset
          ELSE /\ cyc'.open0 = PositionOpen
               /\ cyc'.taken0 = PositionsTaken
               /\ paper_trading => live_state' = live_state
               /\ ~paper_trading => paper_state' = paper_state]_vars

\* A cycle observed a new market and evaluated an entry on the reset state.
C19_Witness ==
  CycleRan /\ cyc.new_market /\ cyc.act = "entry"

\* The orders the strategy task has had accepted in its current retry loop.
Submitted(l) == IF l = NoLadder THEN 0 ELSE l.nlimit + l.nfok

MaxCalls == 4

\* The requests of the control surface that can be in flight together.
Callers == 1 .. 3

\* The variables start() and stop() leave to the strategy task.
trading_vars ==
  <<starts, paper_trading, pc, now, market_id, current_market, live_state,
    paper_state, active_orders, paper_balance, position_qty, avg_price,
    wallet, entry_order, lad, cyc, trades, window_full>>

\* The bot after construction with no request in flight: no strategy task
\* (_task is None), the client connected by the application's startup or not.
SurfaceInit ==
  /\ InitBot
  /\ calc \in {[op |-> "surface",
                call |-> [c \in Callers |-> "idle"],
                ret |-> [c \in Callers |-> "none"],
                awaited |-> [c \in Callers |-> None],
                connected |-> k,
                task |-> None,
                task_state |-> [t \in 1 .. MaxCalls |-> "none"],
                cancelled |-> {},
                calls |-> 0] : k \in BOOLEAN}

\* The strategy tasks that were created and have not finished.
LiveTasks == {t \in 1 .. MaxCalls : calc.task_state[t] \in {"new", "looping"}}

\* start() up to its first suspension: it returns failure on a running bot;
\* otherwise it awaits client.connect() when the client is not connected, and
\* with a connected client it sets _running, resets both state objects and
\* awaits the write of the bot state.
StartCall(c) ==
  /\ calc.op = "surface"
  /\ calc.call[c] = "idle"
  /\ calc.calls < MaxCalls
  /\ IF running
       THEN /\ calc' = [calc EXCEPT !.calls = @ + 1, !.ret[c] = "already_running"]
            /\ UNCHANGED <<running, live_state, paper_state>>
       ELSE IF ~calc.connected
              THEN /\ calc' = [calc EXCEPT !.calls = @ + 1, !.ret[c] = "none",
                                           !.call[c] = "connecting"]
                   /\ UNCHANGED <<running, live_state, paper_state>>
              ELSE /\ calc' = [calc EXCEPT !.calls = @ + 1, !.ret[c] = "none",
                                           !.call[c] = "starting"]
                   /\ running' = TRUE
                   /\ live_state' = LiveReset
                   /\ paper_state' = PaperReset
  /\ UNCHANGED <<starts, paper_trading, pc, now, market_id, current_market,
                 active_orders, paper_balance, position_qty, avg_price,
                 wallet, entry_order, lad, cyc, trades, window_full>>

\* start() resumed after client.connect(): failure is returned when the
\* connection failed, else _running is set, both state objects are reset and
\* the write of the bot state is awaited.
StartConnected(c) ==
  /\ calc.op = "surface"
  /\ calc.call[c] = "connecting"
  /\ \E ok \in BOOLEAN :
       IF ok
         THEN /\ calc' = [calc EXCEPT !.connected = TRUE,
                                      !.call[c] = "starting"]
              /\ running' = TRUE
              /\ live_state' = LiveReset
              /\ paper_state' = PaperReset
         ELSE /\ calc' = [calc EXCEPT !.connected = FALSE, !.call[c] = "idle",
                                      !.ret[c] = "connect_failed"]
              /\ UNCHANGED <<running, live_state, paper_state>>
  /\ UNCHANGED <<starts, paper_trading, pc, now, market_id, current_market,
                 active_orders, paper_balance, position_qty, avg_price,
                 wallet, entry_order, lad, cyc, trades, window_full>>

\* start() resumed after the write of the bot state: the strategy task is
\* created, stored in _task, and success is returned.
StartCreateTask(c) ==
  /\ calc.op = "surface"
  /\ calc.call[c] = "starting"
  /\ \E t \in 1 .. MaxCalls :
       /\ calc.task_state[t] = "none"
       /\ \A u \in 1 .. MaxCalls : u < t => calc.task_state[u] # "none"
       /\ calc' = [calc EXCEPT !.task_state[t] = "new", !.task = t,
                               !.call[c] = "idle", !.ret[c] = "started"]
  /\ UNCHANGED running
  /\ UNCHANGED trading_vars

\* stop() up to its first suspension: it returns failure on a bot that is not
\* running; otherwise it clears _running and, when _task is set, cancels the
\* task and awaits it.
StopCall(c) ==
  /\ calc.op = "surface"
  /\ calc.call[c] = "idle"
  /\ calc.calls < MaxCalls
  /\ IF ~running
       THEN /\ calc' = [calc EXCEPT !.calls = @ + 1, !.ret[c] = "not_running"]
            /\ UNCHANGED running
       ELSE /\ running' = FALSE
            /\ IF calc.task # None
                 THEN calc' = [calc EXCEPT
                        !.calls = @ + 1, !.ret[c] = "none",
                        !.cancelled = @ \cup ({calc.task} \cap LiveTasks),
                        !.awaited[c] = calc.task,
                        !.call[c] = "awaiting_task"]
                 ELSE calc' = [calc EXCEPT
                        !.calls = @ + 1, !.ret[c] = "none",
                        !.call[c] = IF calc.connected THEN "cancelling_orders"
                                                      ELSE "writing_state"]
  /\ UNCHANGED trading_vars

\* stop() resumed once the awaited task has finished: the open orders are
\* cancelled when the client is connected.
StopTaskAwaited(c) ==
  /\ calc.op = "surface"
  /\ calc.call[c] = "awaiting_task"
  /\ calc.task_state[calc.awaited[c]] = "done"
  /\ calc' = [calc EXCEPT !.call[c] = IF calc.connected THEN "cancelling_orders"
                                                        ELSE "writing_state"]
  /\ UNCHANGED running
  /\ UNCHANGED trading_vars

\* stop() resumed after cancel_all_orders: the bot state is written.
StopOrdersCancelled(c) ==
  /\ calc.op = "surface"
  /\ calc.call[c] = "cancelling_orders"
  /\ calc' = [calc EXCEPT !.call[c] = "writing_state"]
  /\ UNCHANGED running
  /\ UNCHANGED trading_vars

\* stop() resumed after the write of the bot state: it returns success.
StopReturn(c) ==
  /\ calc.op = "surface"
  /\ calc.call[c] = "writing_state"
  /\ calc' = [calc EXCEPT !.call[c] = "idle", !.ret[c] = "stopped"]
  /\ UNCHANGED running
  /\ UNCHANGED trading_vars

\* A strategy task is scheduled.  A task cancelled before its first step never
\* enters _run_strategy; a new task enters the loop when _running is set; a
\* task that finds _running cleared, or that is cancelled at an await of the
\* loop, leaves the loop and its finally clause clears _running.
TaskStep(t) ==
  /\ calc.op = "surface"
  /\ t \in LiveTasks
  /\ IF calc.task_state[t] = "new" /\ t \in calc.cancelled
       THEN /\ calc' = [calc EXCEPT !.task_state[t] = "done"]
            /\ UNCHANGED running
       ELSE IF calc.task_state[t] = "new" /\ running
              THEN /\ calc' = [calc EXCEPT !.task_state[t] = "looping"]
                   /\ UNCHANGED running
              ELSE /\ t \in calc.cancelled \/ ~running
                   /\ calc' = [calc EXCEPT !.task_state[t] = "done"]
                   /\ running' = FALSE
  /\ UNCHANGED trading_vars

SurfaceNext ==
  \/ \E c \in Callers : StartCall(c)
  \/ \E c \in Callers : StartConnected(c)
  \/ \E c \in Callers : StartCreateTask(c)
  \/ \E c \in Callers : StopCall(c)
  \/ \E c \in Callers : StopTaskAwaited(c)
  \/ \E c \in Callers : StopOrdersCancelled(c)
  \/ \E c \in Callers : StopReturn(c)
  \/ \E t \in 1 .. MaxCalls : TaskStep(t)

SurfaceSpec == SurfaceInit /\ [][SurfaceNext]_vars

\* C21: at most one strategy task exists at any time, also when calls of
\* start() and stop() interleave at their await points, and a start() on a
\* running bot returns failure without creating a task.
C21_AtMostOneStrategyTask ==
  calc.op = "surface" => Cardinality(LiveTasks) <= 1

\* What a buy of order_size shares at `price` cents takes from the balance as
\* the specification words it: price * size plus the fee on price * size.
StatedCost(price) ==
  10 * price * order_size + FeeOnValue(10 * price * order_size)

\* The step is a paper cycle that took the entry branch.
PaperEntryStep ==
  /\ paper_trading
  /\ trades' = trades + 1
  /\ cyc'.act = "entry"

\* C22: a paper buy whose available balance is below price * size + fee is
\* rejected before anything is recorded: the balance, the Trade rows, the
\* Position rows, the trade counter and the session state stay as they were.
C22_InsufficientBalanceRecordsNothing ==
  [][(/\ PaperEntryStep
      /\ paper_balance < StatedCost(QuoteOf(<<cyc'.yes, cyc'.no>>, cyc'.entry)))
     => /\ paper_balance' = paper_balance
        /\ cyc'.recorded = 0
        /\ cyc'.counted = 0
        /\ position_qty' = (IF market_id' # market_id
                            THEN [x \in Sides |-> 0] ELSE position_qty)
        /\ avg_price' = (IF market_id' # market_id
                         THEN [x \in Sides |-> 0] ELSE avg_price)
        /\ paper_state' = (IF cyc'.new_market THEN PaperReset
                           ELSE paper_state)]_vars

\* A paper entry reached the balance check and was turned down by it.
C22_Witness ==
  /\ paper_trading
  /\ CycleRan
  /\ cyc.act = "entry"
  /\ cyc.outcome = "insufficient"
  /\ paper_balance < StatedCost(QuoteOf(<<cyc.yes, cyc.no>>, cyc.entry))
  /\ ~paper_state.position_open

\* ------------------------------------------------- the loop of _run_strategy

\* The cycle counter of the loop model wraps at this number.
CycleWrap == 3

\* The awaits of one pass of the loop that can fail: the market lookup, the
\* two writes of the bot state, _execute_trading_logic (price fetch, order
\* placement, ledger update) and _monitor_positions.
FallibleSteps ==
  {"find_market", "scan_update", "state_update", "execute", "monitor"}

\* How an await of the loop comes back: with its result, with no market (the
\* lookup only), or with an exception.
StepOutcomes(at) ==
  {"ok"} \cup (IF at = "find_market" THEN {"no_market"} ELSE {})
         \cup (IF at \in FallibleSteps THEN {"raise"} ELSE {})

\* The bot after construction: no strategy task yet.
LoopInit ==
  /\ InitBot
  /\ calc = [op |-> "loop", at |-> "none", cancel |-> FALSE,
             cycles |-> 0, failures |-> 0, raised |-> "none",
             ended_by |-> "none"]

\* A handler that lets the exception end the loop.
ExceptionHandlerReraises(at) == [at |-> "ended", ended_by |-> "exception"]

\* The handler of the inner try: every Exception is logged and the loop sleeps
\* 5 s before its next pass.
ExceptionHandler(at) == [at |-> "error_sleep", ended_by |-> "none"]

\* The await that follows `at` when it came back with `outcome`; after a sleep
\* the loop tests _running and starts the next pass with the market lookup.
NextAwait(at, outcome) ==
  IF at \in {"created", "scan_sleep", "cycle_sleep", "error_sleep"}
    THEN "find_market"
  ELSE IF at = "find_market"
    THEN (IF outcome = "no_market" THEN "scan_update" ELSE "state_update")
  ELSE IF at = "scan_update" THEN "scan_sleep"
  ELSE IF at = "state_update" THEN "execute"
  ELSE IF at = "execute" THEN "monitor"
  ELSE "cycle_sleep"

\* The task is resumed at its current await.  A cancellation requested by
\* stop() is raised there, passes both handlers and ends the loop, whose
\* finally clause clears _running.  Otherwise the await returns or raises; an
\* exception goes to the handler, and the loop test ends the loop when
\* _running is found cleared.
LoopStep ==
  /\ calc.op = "loop"
  /\ calc.at \notin {"none", "ended"}
  /\ IF calc.cancel
       THEN /\ calc' = [calc EXCEPT !.at = "ended", !.ended_by = "cancelled"]
            /\ running' = FALSE
       ELSE \E outcome \in StepOutcomes(calc.at) :
              IF outcome = "raise"
                THEN LET h == ExceptionHandler(calc.at)
                     IN  /\ calc' = [calc EXCEPT
                                       !.at = h.at, !.ended_by = h.ended_by,
                                       !.raised = calc.at,
                                       !.failures = (@ + 1) % CycleWrap]
                         /\ running' = (h.at # "ended" /\ running)
              ELSE IF NextAwait(calc.at, outcome) = "find_market" /\ ~running
                THEN /\ calc' = [calc EXCEPT !.at = "ended",
                                             !.ended_by = "not_running"]
                     /\ running' = FALSE
              ELSE /\ calc' = [calc EXCEPT
                                 !.at = NextAwait(calc.at, outcome),
                                 !.cycles = IF calc.at = "execute"
                                            THEN (@ + 1) % CycleWrap ELSE @]
                   /\ UNCHANGED running
  /\ UNCHANGED trading_vars

\* start() sets _running and creates the strategy task.
LoopStarted ==
  /\ calc.op = "loop"
  /\ calc.at = "none"
  /\ ~running
  /\ running' = TRUE
  /\ calc' = [calc EXCEPT !.at = "created"]
  /\ UNCHANGED trading_vars

\* stop() while the task is suspended: _running is cleared and the task is
\* cancelled.
LoopStop ==
  /\ calc.op = "loop"
  /\ running
  /\ calc.at \notin {"none", "ended"}
  /\ running' = FALSE
  /\ calc' = [calc EXCEPT !.cancel = TRUE]
  /\ UNCHANGED trading_vars

LoopNext == LoopStarted \/ LoopStep \/ LoopStop

\* The event loop resumes a task whose await has completed.
LoopSpec == LoopInit /\ [][LoopNext]_vars /\ WF_vars(LoopStep)

\* C23: no failure inside a cycle ends the strategy loop.  An exception raised
\* by any step of a cycle is caught; after it a next pass of the loop begins
\* unless the bot is stopped; and the loop ends only by stop() or by the
\* cancellation of the task.
C23_FailuresNeverEndTheLoop ==
  /\ [](calc.op = "loop" /\ calc.at = "ended" => calc.cancel)
  /\ [][(calc.op = "loop" /\ ~calc.cancel /\ calc'.failures # calc.failures)
          => calc'.at = "error_sleep"]_vars
  /\ ((calc.op = "loop" /\ calc.at = "error_sleep")
        ~> (calc.at = "find_market" \/ calc.cancel))

\* An order placement or a ledger update has failed inside
\* _execute_trading_logic and the loop has gone on to a later pass.
C23_Witness ==
  /\ calc.op = "loop"
  /\ calc.raised = "execute"
  /\ calc.at = "execute"
  /\ running

\* ------------------------------------------- passes on unusable market data

\* The bot after construction, one entry being followed.
TokensInit ==
  /\ paper_trading \in BOOLEAN
  /\ running = FALSE
  /\ pc = "stopped"
  /\ now = WindowStart
  /\ market_id = 1
  /\ current_market = None
  /\ live_state = LiveReset
  /\ paper_state = PaperReset
  /\ active_orders = {}
  /\ paper_balance = DefaultBalance
  /\ position_qty = [s \in Sides |-> 0]
  /\ avg_price = [s \in Sides |-> 0]
  /\ wallet = [s \in Sides |-> 0]
  /\ entry_order = "none"
  /\ lad = NoLadder
  /\ cyc = NoCycle
  /\ trades = MaxTrades - 1
  /\ window_full = FALSE
  /\ starts = 0
  /\ calc = NoCalc

TokensNext ==
  \/ Next
  \/ MalformedCycle

TokensSpec == TokensInit /\ [][TokensNext]_vars

\* The token list lacks what the specification asks for: fewer than two
\* tokens, or no Yes token, or no No token.
MissingToken(tok) == tok.n < 2 \/ ~tok.yes \/ ~tok.no

\* The step is a pass of the loop on a market with such a token list.
MalformedPass ==
  /\ cyc' # cyc
  /\ cyc'.act # "none"
  /\ MissingToken(cyc'.tokens)

Session(s) ==
  <<s.position_open, s.positions_taken, s.entry_side, s.entry_price,
    s.buy_order_id, s.buy_filled, s.filled_size, s.stoploss_price>>

\* A step of a retry loop satisfies the contract of the ladders: no more than
\* five attempts, the loop left exactly when an outcome is reached, and for
\* each outcome what it means.  `unchanged`: what "the session state as
\* before" asks of the step.
LadderContract(unchanged) ==
  pc \in {"buy", "sell"}
    => /\ lad.attempt <= 5
       /\ lad'.nlimit + lad'.nfok <= 5
       /\ lad'.result \in {"running", "filled", "failed", "aborted"}
       /\ (pc' = "idle") <=> (lad'.result # "running")
       /\ pc' \in {pc, "idle"}
       /\ lad'.result = "running"
            => lad'.attempt = lad.attempt + 1 /\ unchanged
       /\ lad'.result = "filled"
            => /\ lad'.won
               /\ pc = "buy" => /\ live_state'.position_open
                                /\ live_state'.entry_side = lad.side
                                /\ ~live_state.position_open
               /\ pc = "sell" => /\ ~live_state'.position_open
                                 /\ live_state.position_open
       /\ lad'.result = "failed"
            => ~lad'.won /\ lad.attempt = 5 /\ unchanged
       /\ lad'.result = "aborted"
            => pc = "buy" /\ now' <= ENTRY_NO_BUY_THRESHOLD /\ unchanged

\* The step enters a ladder from a live cycle.
LadderEntered == pc = "idle" /\ pc' \in {"buy", "sell"}

\* The strategy state a live cycle works on: reset when the market is new.
CycleState == IF cyc'.new_market THEN LiveReset ELSE live_state

\* C25: every invocation of the buy ladder or of the sell ladder ends after at
\* most 5 attempts with exactly one of three outcomes: filled (the position
\* opened by a buy, closed by a sell), failed (no attempt reported a fill) or
\* aborted by the deadline; unless it filled, position_open, positions_taken
\* and the entry fields are as before the invocation.
C25_LadderEndsInOneOutcome ==
  [][/\ LadderContract(Session(live_state') = Session(live_state))
     /\ LadderEntered => Session(live_state') = Session(CycleState)]_vars

\* C25 as stated: the same, the whole strategy state being as before the
\* invocation when the ladder failed.
C25_FailedLeavesStateAsBefore ==
  [][/\ LadderContract(live_state' = live_state)
     /\ LadderEntered => Session(live_state') = Session(CycleState)
     /\ (pc = "sell" /\ lad'.result = "failed")
          => live_state'.sell_attempted = lad.attempted0]_vars

\* A sell ladder has failed, its last attempt having been a Fill-Or-Kill order
\* the exchange accepted, and has left the position open.
C25_Witness ==
  /\ pc = "idle"
  /\ lad # NoLadder
  /\ lad.kind = "sell"
  /\ lad.result = "failed"
  /\ lad.nfok = 1
  /\ live_state.position_open

\* ------------------------------------------------- price scenarios (paper)

\* Cycles of a price scenario.
MaxScenario == 3

\* The prices of the YES token a scenario cycle can read, in cents; the NO
\* token is quoted at the complement.
ScenarioPrices == {60, 61, 62, 74, 75, 76, 90, 99}

\* A paper bot that has been started and has taken the window's market, with
\* the default balance, no position, and the time gates open.
ScenarioInit ==
  /\ paper_trading = TRUE
  /\ running = TRUE
  /\ pc = "idle"
  /\ now \in EntryTimes
  /\ market_id = 1
  /\ current_market = 1
  /\ live_state = LiveReset
  /\ paper_state = PaperReset
  /\ active_orders = {}
  /\ paper_balance = DefaultBalance
  /\ position_qty = [s \in Sides |-> 0]
  /\ avg_price = [s \in Sides |-> 0]
  /\ wallet = [s \in Sides |-> 0]
  /\ entry_order = "none"
  /\ lad = NoLadder
  /\ cyc = NoCycle
  /\ trades = 0
  /\ window_full = FALSE
  /\ starts = 1
  /\ calc = [op |-> "scenario", seen |-> <<>>, wins |-> 0, losses |-> 0]

\* One pass of the loop in paper mode on the market of the window, the YES
\* token read at p and the NO token at 100 - p by the strategy and by the
\* monitor, the clock staying inside the entry window and the BTC filter off.
\* wins, losses: the counters of the BotState row, changed by a sale the
\* Position row held the size of.
ScenarioCycle ==
  /\ calc.op = "scenario"
  /\ running
  /\ pc = "idle"
  /\ paper_trading
  /\ Len(calc.seen) < MaxScenario
  /\ \E p \in ScenarioPrices :
       LET q == <<p, 100 - p>>
           s0 == paper_state
           cur == IF s0.position_open THEN QuoteOf(q, s0.entry_side) ELSE None
           r == PaperStrategy(now, q[1], q[2], cur, now, TRUE, s0,
                              paper_balance, position_qty)
           booked ==
             IF r.exit \in {"none", "5SEC_EXPIRY_NO_PRICE"}
             THEN NoBooking
             ELSE LET price == IF r.exit = "TARGET" THEN TARGET ELSE cur
                      avg == avg_price[s0.entry_side]
                  IN  Booking(r.qty # position_qty, price, avg, order_size,
                              PaperPnl(price, avg, order_size), TRUE)
       IN  /\ paper_state' = r.st
           /\ window_full' = WindowFull(FALSE, r.st)
           /\ paper_balance' = r.bal
           /\ position_qty' = r.qty
           /\ avg_price' = AvgAfter(position_qty, r.qty, avg_price,
                                    QuoteOf(q, r.entry))
           /\ cyc' = [act |-> r.act, t |-> now, yes |-> q[1], no |-> q[2],
                      cur |-> cur,
                      tokens |-> [n |-> 2, yes |-> TRUE, no |-> TRUE],
                      open0 |-> s0.position_open,
                      filled0 |-> s0.position_open,
                      taken0 |-> s0.positions_taken,
                      new_market |-> FALSE, sell_done0 |-> FALSE,
                      entry |-> r.entry, outcome |-> r.outcome,
                      exit |-> r.exit,
                      recorded |-> PaperRecorded(r.outcome, r.exit),
                      counted |-> PaperCounted(r.outcome,
                                               r.qty # position_qty),
                      booked |-> booked]
           /\ calc' = [calc EXCEPT
                         !.seen = Append(@, p),
                         !.wins = IF booked.applied /\ booked.pnl > 0
                                  THEN @ + 1 ELSE @,
                         !.losses = IF booked.applied /\ booked.pnl <= 0
                                    THEN @ + 1 ELSE @]
  /\ UNCHANGED <<starts, running, pc, paper_trading, now, market_id,
                 current_market, live_state, active_orders, wallet,
                 entry_order, lad, trades>>

ScenarioSpec == ScenarioInit /\ [][ScenarioCycle]_vars

\* The prices read so far are those of the list.
Seen(prices) == calc.op = "scenario" /\ calc.seen = prices

\* C26 (Scenario A): with trigger 0.75, target 0.99, offset 0.15 and size 100,
\* the prices 0.60, 0.76, 0.60 on one token give no entry at 0.60, an entry at
\* 0.76 whose stoploss is 0.61, and a stoploss exit at the second 0.60 whose
\* net P&L is (0.60 - 0.76) * 100 minus both fees, which is negative;
\* positions_taken becomes 1.
C26_ScenarioA ==
  /\ Seen(<<60>>)
       => ~paper_state.position_open /\ cyc.entry = "None"
  /\ Seen(<<60, 76>>)
       => /\ paper_state.position_open
          /\ paper_state.entry_side = "YES"
          /\ paper_state.entry_price = 76
          /\ CalculateStoploss(paper_state.entry_price) = 61
          /\ cyc.taken0 = 0 /\ paper_state.positions_taken = 0
  /\ Seen(<<60, 76, 60>>)
       => /\ ~paper_state.position_open
          /\ cyc.exit = "STOPLOSS"
          /\ cyc.booked.applied
          /\ cyc.booked.price = 60
          /\ cyc.booked.pnl = NetPnl(60, 760, 100)
          /\ cyc.booked.pnl = (600 - 760) * 100 - 76 - 60
          /\ cyc.booked.pnl < 0
          /\ paper_state.positions_taken = 1
          /\ calc.losses = 1 /\ calc.wins = 0

\* Scenario A has run to its end.
C26_Witness ==
  /\ Seen(<<60, 76, 60>>)
  /\ cyc.exit = "STOPLOSS"
  /\ paper_state.positions_taken = 1

\* C27 (Scenario B): with the parameters of Scenario A and an entry at 0.76, a
\* later price of 0.99 triggers a TARGET exit recorded at price 0.99 whose net
\* P&L is (0.99 - 0.76) * 100 minus both fees, which is positive, and the exit
\* is counted as a win.
C27_ScenarioB ==
  (Seen(<<76, 99>>) \/ Seen(<<76, 90, 99>>))
    => /\ cyc.open0
       /\ ~paper_state.position_open
       /\ cyc.exit = "TARGET"
       /\ cyc.booked.applied
       /\ cyc.booked.price = 99
       /\ cyc.booked.avg = 760
       /\ cyc.booked.pnl = NetPnl(99, 760, 100)
       /\ cyc.booked.pnl = (990 - 760) * 100 - 76 - 99
       /\ cyc.booked.pnl > 0
       /\ calc.wins = 1 /\ calc.losses = 0
       /\ paper_state.positions_taken = 1
       /\ paper_balance = DefaultBalance + cyc.booked.pnl

\* Scenario B has run to its end, the price having passed 0.90 on its way.
C27_Witness ==
  /\ Seen(<<76, 90, 99>>)
  /\ cyc.exit = "TARGET"
  /\ calc.wins = 1

\* ------------------------------------------- the Position row of one token

\* Fills applied to the row in a ledger run.
MaxFills == 3

\* No Position row for the token.
NoRow == [quantity |-> None]

\* The prices (cents) and sizes (shares) of the fills: entry prices in the
\* range, an exit price, the configured size and a smaller matched size.
FillPrices == {60, 75, 76, 90, 98}
FillSizes == {order_size, 90}

\* The fraction num / den in lowest terms: the value a division gives does
\* not depend on how its operands were written.
RECURSIVE Gcd(_, _)
Gcd(a, b) == IF b = 0 THEN a ELSE Gcd(b, a % b)
Quotient(num, den) ==
  [num |-> num \div Gcd(num, den), den |-> den \div Gcd(num, den)]

\* A ledger that overwrites the average price with the price of the buy.
ApplyBuyOverwrite(row, price, size) ==
  IF row = NoRow
  THEN [quantity |-> size, num |-> price, den |-> 1]
  ELSE [quantity |-> row.quantity + size, num |-> price, den |-> 1]

\* _update_live_position and _update_paper_position_unified, side "buy", on
\* the row of the token (avg_price held as the fraction num / den, in cents):
\* an existing row gets avg_price = (avg_price * quantity + price * size) /
\* (quantity + size) and quantity + size; a missing row is created with the
\* size and the price.
ApplyBuy(row, price, size) ==
  IF row = NoRow
  THEN [quantity |-> size, num |-> price, den |-> 1]
  ELSE LET total_cost == Quotient(row.num * row.quantity
                                   + price * size * row.den, row.den)
           new_quantity == row.quantity + size
           new_avg == Quotient(total_cost.num,
                               total_cost.den * new_quantity)
       IN  [quantity |-> new_quantity, num |-> new_avg.num,
            den |-> new_avg.den]

\* The same functions, side "sell": the row changes only if it holds the size;
\* its average price stays.
ApplySell(row, size) ==
  IF row # NoRow /\ row.quantity >= size
  THEN [row EXCEPT !.quantity = @ - size]
  ELSE row

\* An empty ledger and a BotState row that has counted no trade.
LedgerInit ==
  /\ InitBot
  /\ calc = [op |-> "ledger", row |-> NoRow, trades_count |-> 0, fills |-> 0,
             last |-> [side |-> "none"]]

\* A buy fill is applied: the row is updated and trades_count incremented.
LedgerBuy ==
  /\ calc.op = "ledger"
  /\ calc.fills < MaxFills
  /\ \E price \in FillPrices \ {60} : \E size \in FillSizes :
       calc' = [calc EXCEPT
                  !.row = ApplyBuy(calc.row, price, size),
                  !.trades_count = @ + 1,
                  !.fills = @ + 1,
                  !.last = [side |-> "buy", price |-> price, size |-> size,
                            row0 |-> calc.row,
                            count0 |-> calc.trades_count]]
  /\ UNCHANGED running
  /\ UNCHANGED trading_vars

\* A sell fill is applied: the row and trades_count change only if the row
\* holds the size.
LedgerSell ==
  /\ calc.op = "ledger"
  /\ calc.fills < MaxFills
  /\ \E price \in FillPrices : \E size \in FillSizes :
       calc' = [calc EXCEPT
                  !.row = ApplySell(calc.row, size),
                  !.trades_count =
                    IF ApplySell(calc.row, size) # calc.row THEN @ + 1 ELSE @,
                  !.fills = @ + 1,
                  !.last = [side |-> "sell", price |-> price, size |-> size,
                            row0 |-> calc.row,
                            count0 |-> calc.trades_count]]
  /\ UNCHANGED running
  /\ UNCHANGED trading_vars

LedgerNext == LedgerBuy \/ LedgerSell

LedgerSpec == LedgerInit /\ [][LedgerNext]_vars

\* The last fill applied was a buy.
BuyApplied == calc.op = "ledger" /\ calc.last.side = "buy"

\* C28: on every buy fill applied to the ledger the average price becomes
\* (avg * qty + price * size) / (qty + size), the quantity qty + size, and the
\* trade counter increases by exactly 1; a buy on a token with no ledger
\* position creates one with quantity = size and average price = price.
C28_BuyFillUpdatesWeightedAverage ==
  BuyApplied
    => LET l == calc.last
           r0 == l.row0
           r == calc.row
       IN  /\ calc.trades_count = l.count0 + 1
           /\ r0 = NoRow => r.quantity = l.size /\ r.num = l.price * r.den
           /\ r0 # NoRow
                => /\ r.quantity = r0.quantity + l.size
                   /\ [num |-> r.num, den |-> r.den]
                        = Quotient(r0.num * r0.quantity
                                     + l.price * l.size * r0.den,
                                   r0.den * (r0.quantity + l.size))

\* A buy was applied to a row that held shares bought at another price.
C28_Witness ==
  /\ BuyApplied
  /\ calc.last.row0 # NoRow
  /\ calc.last.row0.quantity > 0
  /\ calc.last.row0.num # calc.last.price * calc.last.row0.den

\* C29: a pending live position is marked as filled (buy_filled becomes true
\* while the position is open and waiting for its fill) only when the exchange
\* holds the buy order as matched; an order still resting on the book with no
\* matched size is never marked as filled.
C29_OnlyMatchedOrdersMarkFilled ==
  [][(/\ pc = "idle"
      /\ live_state.position_open
      /\ ~live_state.buy_filled
      /\ live_state'.buy_filled)
       => entry_order = "matched"]_vars

\* ---------------------------------------------------------------------------
\* The persisted session state: get_or_create_bot_state in concurrent database
\* sessions.  Each caller (_update_bot_state of the strategy task and of
\* start() and stop(), get_status of the control surface, the ledger updates)
\* opens a session of its own from async_session_maker and runs
\* get_or_create_bot_state in it; every database call is awaited, so the
\* callers interleave at the select, the commit and the refresh.  The table
\* has no uniqueness constraint besides its autoincrement id, and init_db
\* creates the tables without a row.
\* ---------------------------------------------------------------------------

\* Calls of get_or_create_bot_state made in one run.
MaxQueries == 5

\* The database sessions that can be open at once: the strategy task's state
\* update and two requests of the control surface.
DbSessions == 1 .. 3

\* The table bot_state is empty and no session is open.
DbInit ==
  /\ InitBot
  /\ calc = [op |-> "db", rows |-> 0, queries |-> 0,
             at |-> [s \in DbSessions |-> "closed"]]

\* A caller opens a session and awaits session.execute(select(BotState)
\* .limit(1)).
DbOpen(s) ==
  /\ calc.op = "db"
  /\ calc.at[s] = "closed"
  /\ calc.queries < MaxQueries
  /\ calc' = [calc EXCEPT !.at[s] = "select", !.queries = @ + 1]
  /\ UNCHANGED running
  /\ UNCHANGED trading_vars

\* The select runs on the table as it is: scalar_one_or_none() gives the
\* first row or None.  With None the function makes a BotState(), adds it to
\* the session and awaits session.commit().
DbSelect(s) ==
  /\ calc.op = "db"
  /\ calc.at[s] = "select"
  /\ calc' = [calc EXCEPT !.at[s] = IF calc.rows = 0 THEN "commit"
                                    ELSE "found"]
  /\ UNCHANGED running
  /\ UNCHANGED trading_vars

\* The commit inserts the row the session added.
DbCommit(s) ==
  /\ calc.op = "db"
  /\ calc.at[s] = "commit"
  /\ calc' = [calc EXCEPT !.rows = @ + 1, !.at[s] = "refresh"]
  /\ UNCHANGED running
  /\ UNCHANGED trading_vars

\* session.refresh(bot_state) reloads the inserted row.
DbRefresh(s) ==
  /\ calc.op = "db"
  /\ calc.at[s] = "refresh"
  /\ calc' = [calc EXCEPT !.at[s] = "found"]
  /\ UNCHANGED running
  /\ UNCHANGED trading_vars

\* The function returns the row; the caller uses it and leaves its
\* `async with` block, which closes the session.
DbClose(s) ==
  /\ calc.op = "db"
  /\ calc.at[s] = "found"
  /\ calc' = [calc EXCEPT !.at[s] = "closed"]
  /\ UNCHANGED running
  /\ UNCHANGED trading_vars

DbNext ==
  \E s \in DbSessions :
    \/ DbOpen(s)
    \/ DbSelect(s)
    \/ DbCommit(s)
    \/ DbRefresh(s)
    \/ DbClose(s)

DbSpec == DbInit /\ [][DbNext]_vars

\* C30: the persisted session state is a singleton: at most one BotState row
\* ever exists, also when get_or_create_bot_state runs in several database
\* sessions concurrently on an initially empty table.
C30_AtMostOneBotStateRow == calc.op = "db" => calc.rows <= 1

\* The step closes the live position in the session state: position_open goes
\* to false and close_position counts it, on the market the position is in.
LivePositionClosed ==
  /\ ~paper_trading
  /\ live_state.position_open
  /\ ~live_state'.position_open
  /\ live_state'.positions_taken = live_state.positions_taken + 1
  /\ market_id' = market_id

\* C31: a live position is closed in the session state only if a sell order
\* for it was matched at the exchange or the token balance is below the
\* minimum order size: no failed or unavailable balance or price query closes
\* a position whose tokens are still held.
C31_ClosedOnlyWhenSoldOrEmpty ==
  [][LivePositionClosed
       => \/ cyc'.booked.sold /\ cyc'.booked.matched
          \/ wallet'[live_state.entry_side] < MIN_ORDER_SIZE]_vars

\* An order for the key (token, side) can still be on the book of the
\* exchange: an order of the retry loop of that side was left resting, or the
\* buy order the pending position holds rests.
OrderOutstanding(key) ==
  \/ lad # NoLadder /\ lad.kind = key[2] /\ lad.resting
  \/ key[2] = "buy" /\ entry_order = "resting"

\* C32: the duplicate-submission map _active_orders holds an open entry for a
\* (token, side) key only while an order for that key is outstanding on the
\* exchange: once the order was cancelled or filled, or its ladder has ended,
\* the key is free, so that no later attempt or ladder on the same token and
\* side is rejected as a duplicate.
C32_ActiveOrdersOnlyWhileOutstanding ==
  \A key \in active_orders : OrderOutstanding(key)

\* The quantity the exchange has matched or can still match across the orders
\* the last invocation of the buy ladder submitted: the order it left on the
\* book, matched since or not, and the order whose status check reported the
\* fill (never the same order: an order reported filled is not left).
BuyLadderMatchable ==
  IF lad = NoLadder \/ lad.kind # "buy" THEN 0
  ELSE order_size * ((IF lad.resting THEN 1 ELSE 0)
                     + (IF lad.result = "filled" /\ entry_order = "matched"
                        THEN 1 ELSE 0))

\* C33: within one invocation of the live buy ladder the total quantity the
\* exchange can match across all orders the invocation submitted never
\* exceeds the configured order size.
C33_LadderExposureWithinOrderSize == BuyLadderMatchable <= order_size

\* ---------------------------------------------------------------------------
\* A paper buy and the cancellation of the strategy task.  _place_paper_entry_
\* unified awaits _simulate_paper_order_unified, which awaits, in this order,
\* the bot state of a session of its own, the commit of the debited balance,
\* _record_trade and _update_paper_position_unified (a session and a commit
\* each); the session state is set when it has returned, and
\* _update_bot_state is awaited last.  stop() cancels the task at whichever
\* of these awaits it is suspended in: CancelledError leaves through every
\* frame, and nothing is undone.  A commit that is being awaited when the
\* task is cancelled has been written or not.
\* ---------------------------------------------------------------------------

\* The prices a paper entry is placed at, and the balances it finds.
BuyPrices == {74, 75, 76, 90, 98}
BuyBalances == StartBalances \cup {77000, 100000}

\* The awaits of a paper buy, in the order they are reached.
BuyAwaits ==
  <<"get_bot_state", "commit_balance", "record_trade", "update_position",
    "update_bot_state">>

\* No paper buy has been placed: the balance is as persisted, the task is in
\* its cycle.
PaperBuyInit ==
  /\ InitBot
  /\ paper_trading
  /\ \E b \in BuyBalances :
       calc = [op |-> "paper_buy", at |-> "cycle", price |-> 0,
               balance0 |-> b, paper_balance |-> b, trade |-> FALSE,
               quantity |-> 0, position_open |-> FALSE]

\* _place_paper_entry_unified calls _simulate_paper_order_unified: a price
\* below the trigger is rejected at once; otherwise the bot state is awaited.
BuySubmit ==
  /\ calc.op = "paper_buy"
  /\ running
  /\ calc.at = "cycle"
  /\ \E price \in BuyPrices :
       calc' = [calc EXCEPT
                  !.price = price,
                  !.at = IF price < TRIGGER_PRICE \/ price >= TARGET
                         THEN "rejected" ELSE "get_bot_state"]
  /\ UNCHANGED running
  /\ UNCHANGED trading_vars

\* The bot state is read: a balance below the cost plus fee returns None;
\* otherwise the balance is debited in the session and the commit awaited.
BuyCheckBalance ==
  /\ calc.op = "paper_buy"
  /\ running
  /\ calc.at = "get_bot_state"
  /\ calc' = [calc EXCEPT
                !.at = IF calc.paper_balance
                          < 10 * calc.price * order_size
                            + TakerFee(calc.price, order_size)
                       THEN "rejected" ELSE "commit_balance"]
  /\ UNCHANGED running
  /\ UNCHANGED trading_vars

\* The commit writes the debited balance; _record_trade is awaited.
BuyCommitBalance ==
  /\ calc.op = "paper_buy"
  /\ running
  /\ calc.at = "commit_balance"
  /\ calc' = [calc EXCEPT
                !.paper_balance = @ - (10 * calc.price * order_size
                                       + TakerFee(calc.price, order_size)),
                !.at = "record_trade"]
  /\ UNCHANGED running
  /\ UNCHANGED trading_vars

\* _record_trade writes the trade; _update_paper_position_unified is awaited.
BuyRecordTrade ==
  /\ calc.op = "paper_buy"
  /\ running
  /\ calc.at = "record_trade"
  /\ calc' = [calc EXCEPT !.trade = TRUE, !.at = "update_position"]
  /\ UNCHANGED running
  /\ UNCHANGED trading_vars

\* _update_paper_position_unified writes the Position row; the order id is
\* returned, _place_paper_entry_unified sets position_open and awaits
\* _update_bot_state.
BuyUpdatePosition ==
  /\ calc.op = "paper_buy"
  /\ running
  /\ calc.at = "update_position"
  /\ calc' = [calc EXCEPT !.quantity = @ + order_size,
                          !.position_open = TRUE,
                          !.at = "update_bot_state"]
  /\ UNCHANGED running
  /\ UNCHANGED trading_vars

\* _update_bot_state returns: the entry is complete.
BuyComplete ==
  /\ calc.op = "paper_buy"
  /\ running
  /\ calc.at = "update_bot_state"
  /\ calc' = [calc EXCEPT !.at = "opened"]
  /\ UNCHANGED running
  /\ UNCHANGED trading_vars

\* start() has created the strategy task.
BuyTaskStarted ==
  /\ calc.op = "paper_buy"
  /\ ~running
  /\ calc.at = "cycle"
  /\ running' = TRUE
  /\ UNCHANGED calc
  /\ UNCHANGED trading_vars

\* stop() cancels the task inside the paper buy.  written: the commit the
\* task was awaiting had been written.
CancelDuringBuy ==
  /\ calc.op = "paper_buy"
  /\ running
  /\ \E i \in DOMAIN BuyAwaits : calc.at = BuyAwaits[i]
  /\ running' = FALSE
  /\ \E written \in BOOLEAN :
       LET done == CASE calc.at = "commit_balance" /\ written ->
                          [calc EXCEPT
                             !.paper_balance =
                               @ - (10 * calc.price * order_size
                                    + TakerFee(calc.price, order_size))]
                     [] calc.at = "record_trade" /\ written ->
                          [calc EXCEPT !.trade = TRUE]
                     [] calc.at = "update_position" /\ written ->
                          [calc EXCEPT !.quantity = @ + order_size]
                     [] OTHER -> calc
       IN  calc' = [done EXCEPT !.at = "cancelled"]
  /\ UNCHANGED trading_vars

PaperBuyNext ==
  \/ BuyTaskStarted
  \/ BuySubmit
  \/ BuyCheckBalance
  \/ BuyCommitBalance
  \/ BuyRecordTrade
  \/ BuyUpdatePosition
  \/ BuyComplete
  \/ CancelDuringBuy

PaperBuySpec == PaperBuyInit /\ [][PaperBuyNext]_vars

\* C34: a paper buy is all-or-nothing with respect to task cancellation: when
\* stop() has cancelled the strategy task at an await of a paper buy, it is
\* never the case that the paper balance was debited while no trade record,
\* no ledger position and no open position in the session state exist for
\* that buy.
C34_CancelledBuyNotDebitedAlone ==
  (calc.op = "paper_buy" /\ calc.at = "cancelled")
    => ~(/\ calc.paper_balance < calc.balance0
         /\ ~calc.trade
         /\ calc.quantity = 0
         /\ ~calc.position_open)

\* The step ends the open paper position: position_open goes to false, by an
\* exit, a force close or a reset.
PaperPositionEnded ==
  /\ paper_trading
  /\ paper_state.position_open
  /\ ~paper_state'.position_open

\* The net P&L the step booked on the BotState row, in thousandths of a
\* dollar.
PnlBooked ==
  IF cyc' # NoCycle /\ cyc'.booked.applied THEN cyc'.booked.pnl ELSE 0

\* C35: in paper mode the balance with no position open is the starting
\* balance plus the cumulative realized P&L: each completed buy/sell cycle
\* changes the balance by exactly the net P&L booked for it, that is, the
\* balance after the position has ended is the balance before its buy (the
\* balance while it was open plus the cost and fee of the buy) plus the P&L
\* booked.
C35_BalanceFollowsRealizedPnl ==
  [][PaperPositionEnded
       => paper_balance'
            = paper_balance
              + (10 * paper_state.entry_price * order_size
                 + TakerFee(paper_state.entry_price, order_size))
              + PnlBooked]_vars

\* A bot that has been trading in the last window followed and has opened and
\* closed all the positions the window allows but one: it is running, between
\* two cycles, or has been stopped, with no position open, nothing held and
\* no order on the book.  Two more entries are followed.
CapInit ==
  /\ paper_trading \in BOOLEAN
  /\ running \in BOOLEAN
  /\ pc = IF running THEN "idle" ELSE "stopped"
  /\ now \in EntryTimes
  /\ market_id = MaxWindows
  /\ current_market = MaxWindows
  /\ live_state =
       [LiveReset EXCEPT !.positions_taken = max_positions_per_market - 1]
  /\ paper_state =
       [PaperReset EXCEPT !.positions_taken = max_positions_per_market - 1]
  /\ active_orders = {}
  /\ paper_balance = DefaultBalance
  /\ position_qty = [s \in Sides |-> 0]
  /\ avg_price = [s \in Sides |-> 0]
  /\ wallet = [s \in Sides |-> 0]
  /\ entry_order = "none"
  /\ lad = NoLadder
  /\ cyc = NoCycle
  /\ trades = 0
  /\ window_full = FALSE
  /\ starts = 1
  /\ calc = NoCalc

CapSpec == CapInit /\ [][Next]_vars

\* C36: positions_taken never exceeds max_positions, in either mode, after any
\* sequence of cycles, entries, exits, force closes and resets.
C36_PositionsTakenWithinMax ==
  /\ live_state.positions_taken <= max_positions_per_market
  /\ paper_state.positions_taken <= max_positions_per_market

\* A position was closed in the run, the count reached max_positions, and the
\* next cycle found the limit reached.
C36_Witness ==
  /\ CycleRan
  /\ cyc.act = "max_positions"
  /\ cyc.taken0 = max_positions_per_market
  /\ PositionsTaken = max_positions_per_market

\* ---------------------------------------------------------------------------
\* Paper orders.  _simulate_paper_order_unified with
\* _update_paper_position_unified, called with any side on any token at any
\* price, in any order: the balance of the BotState row and the quantities of
\* the Position rows.
\* ---------------------------------------------------------------------------

\* Paper orders of one run.
MaxOrders == 4

\* The prices of the orders, in cents, and the balances a run starts with.
OrderPrices == {1, 60, 76, 98, 99}
OrderBalances == StartBalances \cup {100000}

\* No order has been simulated: no Position row holds anything.
OrdersInit ==
  /\ InitBot
  /\ paper_trading
  /\ \E b \in OrderBalances :
       calc = [op |-> "orders", paper_balance |-> b,
               quantity |-> [side \in Sides |-> 0], orders |-> 0,
               applied |-> {}, refused |-> {}]

\* A paper buy of order_size shares.
OrderBuy ==
  /\ calc.op = "orders"
  /\ calc.orders < MaxOrders
  /\ \E side \in Sides : \E price \in OrderPrices :
       LET r == SimulatePaperBuy(side, price, calc.paper_balance,
                                 calc.quantity)
       IN  calc' = [calc EXCEPT
                      !.paper_balance = r.bal,
                      !.quantity = r.qty,
                      !.orders = @ + 1,
                      !.applied = IF r.ok THEN @ \cup {"buy"} ELSE @,
                      !.refused = IF r.why = "insufficient"
                                  THEN @ \cup {"buy"} ELSE @]
  /\ UNCHANGED running
  /\ UNCHANGED trading_vars

\* A paper sell of order_size shares.
OrderSell ==
  /\ calc.op = "orders"
  /\ calc.orders < MaxOrders
  /\ \E side \in Sides : \E price \in OrderPrices :
       LET r == SimulatePaperSell(side, price, calc.paper_balance,
                                  calc.quantity)
       IN  calc' = [calc EXCEPT
                      !.paper_balance = r.bal,
                      !.quantity = r.qty,
                      !.orders = @ + 1,
                      !.applied = IF r.qty # calc.quantity
                                  THEN @ \cup {"sell"} ELSE @,
                      !.refused = IF r.qty = calc.quantity
                                  THEN @ \cup {"sell"} ELSE @]
  /\ UNCHANGED running
  /\ UNCHANGED trading_vars

OrdersNext == OrderBuy \/ OrderSell

OrdersSpec == OrdersInit /\ [][OrdersNext]_vars

\* C37: the paper balance is never negative and the quantity of every ledger
\* position is never negative, after any sequence of paper buys and sells: a
\* buy is debited only when the balance covers cost plus fee, and a sell
\* reduces a position only when its quantity is at least the sold size.
C37_BalanceAndQuantitiesNonNegative ==
  calc.op = "orders"
    => /\ calc.paper_balance >= 0
       /\ \A side \in Sides : calc.quantity[side] >= 0

\* Buys and sells were applied, a buy was refused on the balance and a sell
\* on the quantity of its row.
C37_Witness ==
  /\ calc.op = "orders"
  /\ calc.applied = {"buy", "sell"}
  /\ calc.refused = {"buy", "sell"}

\* ---------------------------------------------------------------------------
\* The BTC price filter.  BTCPriceService (the market-open price, the cached
\* live price and its age) with the filter of _place_live_entry and of
\* _place_paper_entry_unified.  Prices of BTC are in whole dollars.
\* ---------------------------------------------------------------------------

\* should_place_order(min_difference=10.0), in dollars
btc_min_price_difference == 10

\* The prices the Binance ticker answers, None when the request fails or does
\* not answer 200, and the times to close an entry reads.
BtcPrices == {95000, 95004, 95010, 95020}
HttpAnswers == BtcPrices \cup {None}
BtcTimes == {500, 6000}

\* Python's truth of an Optional[float]
Truthy(p) == p # None /\ p # 0

\* get_live_btc_price: the cached price while it is younger than 30 seconds,
\* else the ticker's answer, which is cached, else the cached price of any age.
GetLiveBtcPrice(cached, fresh, http) ==
  IF Truthy(cached) /\ fresh
  THEN [price |-> cached, cached |-> cached, fresh |-> fresh]
  ELSE IF http # None
  THEN [price |-> http, cached |-> http, fresh |-> TRUE]
  ELSE [price |-> cached, cached |-> cached, fresh |-> fresh]

ShouldPlaceOrderStrict(price_to_beat, live_price, min_difference) ==
  IF price_to_beat = None THEN FALSE
  ELSE IF live_price = None THEN FALSE
  ELSE LET difference == live_price - price_to_beat
       IN  (IF difference < 0 THEN -difference ELSE difference)
             > min_difference

\* should_place_order: the first component of its answer
ShouldPlaceOrder(price_to_beat, live_price, min_difference) ==
  IF price_to_beat = None THEN FALSE
  ELSE IF live_price = None THEN FALSE
  ELSE LET difference == live_price - price_to_beat
       IN  (IF difference < 0 THEN -difference ELSE difference)
             >= min_difference

\* The service after construction, the filter switched on or off in the
\* settings, and no entry attempted yet.
BtcInit ==
  /\ InitBot
  /\ \E enabled \in BOOLEAN :
       calc = [op |-> "btc", enabled |-> enabled, price_to_beat |-> None,
               live_btc_price |-> None, fresh |-> FALSE, fetched |-> FALSE,
               last |-> [open |-> None, live |-> None, outcome |-> "none",
                         changed |-> FALSE],
               seen |-> {}]

\* The strategy loop's fetch of the market-open price, once per market:
\* fetch_price_to_beat keeps the live price it reads when it is truthy.
BtcFetchPriceToBeat ==
  /\ calc.op = "btc"
  /\ calc.enabled
  /\ ~calc.fetched
  /\ \E http \in HttpAnswers :
       LET g == GetLiveBtcPrice(calc.live_btc_price, calc.fresh, http)
       IN  calc' = [calc EXCEPT
                      !.live_btc_price = g.cached,
                      !.fresh = g.fresh,
                      !.price_to_beat = IF Truthy(g.price) THEN g.price ELSE @,
                      !.fetched = Truthy(g.price)]
  /\ UNCHANGED running
  /\ UNCHANGED trading_vars

\* The strategy loop meets a new market: clear_price_to_beat.
BtcNewMarket ==
  /\ calc.op = "btc"
  /\ calc.enabled
  /\ calc.fetched \/ calc.price_to_beat # None
  /\ calc' = [calc EXCEPT !.price_to_beat = None, !.fetched = FALSE]
  /\ UNCHANGED running
  /\ UNCHANGED trading_vars

\* Thirty seconds pass without an update of the cached live price.
BtcAge ==
  /\ calc.op = "btc"
  /\ calc.fresh
  /\ calc' = [calc EXCEPT !.fresh = FALSE]
  /\ UNCHANGED running
  /\ UNCHANGED trading_vars

\* What an entry showed of the filter: the order went on at exactly the
\* minimum difference or above it, or it was blocked under the minimum, or
\* for want of the market-open price with or without a live price.
BtcCase(open, live, outcome) ==
  IF outcome \in {"none", "blocked"} THEN {}
  ELSE IF outcome = "btc_blocked"
  THEN IF open = None
       THEN (IF live = None THEN {"no_prices"} ELSE {"no_open"})
       ELSE {"small"}
  ELSE IF open = None THEN {"unfiltered"}
  ELSE IF live - open \in {btc_min_price_difference, -btc_min_price_difference}
  THEN {"at_min"}
  ELSE {"above_min"}

\* One entry of either mode on a signal of the strategy: the time check, the
\* filter when it is enabled, then the placement of the order.
BtcEntry ==
  /\ calc.op = "btc"
  /\ \E http \in HttpAnswers : \E side \in Sides : \E t \in BtcTimes :
     \E price \in {TRIGGER_PRICE + 1, REENTRY_MAX_PRICE} :
       LET late == t <= ENTRY_NO_BUY_THRESHOLD
           asked == calc.enabled /\ ~late
           g == IF asked
                THEN GetLiveBtcPrice(calc.live_btc_price, calc.fresh, http)
                ELSE [price |-> None, cached |-> calc.live_btc_price,
                      fresh |-> calc.fresh]
           should_place ==
             IF calc.enabled
             THEN ShouldPlaceOrder(calc.price_to_beat, g.price,
                                   btc_min_price_difference)
             ELSE TRUE
           x == [cur |-> None, bal_ok |-> TRUE, confirm |-> FALSE,
                 place |-> "ok", tfill |-> TRUE, t |-> t, read_ok |-> TRUE,
                 should_place |-> should_place]
           outcome ==
             IF paper_trading
             THEN PlacePaperEntry(side, price, t, should_place, paper_state,
                                  paper_balance, position_qty).outcome
             ELSE PlaceLiveEntry(side, price, x, live_state, active_orders,
                                 wallet, position_qty).outcome
           changed ==
             IF paper_trading
             THEN LET r == PlacePaperEntry(side, price, t, should_place,
                                           paper_state, paper_balance,
                                           position_qty)
                  IN  \/ r.st # paper_state
                      \/ r.bal # paper_balance
                      \/ r.qty # position_qty
             ELSE LET r == PlaceLiveEntry(side, price, x, live_state,
                                          active_orders, wallet, position_qty)
                  IN  \/ r.lad # NoLadder
                      \/ r.st # live_state
                      \/ r.ao # active_orders
       IN  calc' = [calc EXCEPT
                      !.live_btc_price = g.cached,
                      !.fresh = g.fresh,
                      !.last = [open |-> calc.price_to_beat,
                                live |-> g.price, outcome |-> outcome,
                                changed |-> changed],
                      !.seen = @ \cup (IF calc.enabled
                                       THEN BtcCase(calc.price_to_beat,
                                                    g.price, outcome)
                                       ELSE {})]
  /\ UNCHANGED running
  /\ UNCHANGED trading_vars

BtcNext == BtcFetchPriceToBeat \/ BtcNewMarket \/ BtcAge \/ BtcEntry

BtcSpec == BtcInit /\ [][BtcNext]_vars

\* C38: with the BTC price filter enabled, an entry that passed its time
\* check proceeds to order placement if and only if both the market-open
\* price and the live BTC price are available and |live - open| is at least
\* the minimum difference; when either price is missing the entry is blocked
\* and no order is placed.
C38_EntryProceedsIffBtcMoved ==
  calc.op = "btc" /\ calc.enabled /\ calc.last.outcome \notin {"none", "blocked"}
    => LET open == calc.last.open
           live == calc.last.live
           moved == /\ open # None
                    /\ live # None
                    /\ \/ live - open >= btc_min_price_difference
                       \/ open - live >= btc_min_price_difference
       IN  /\ calc.last.outcome # "btc_blocked" <=> moved
           /\ ~moved => ~calc.last.changed
           /\ (open = None \/ live = None)
                => calc.last.outcome = "btc_blocked"

\* Entries went on at exactly the minimum difference and above it, and were
\* blocked under it, without the market-open price, and without either price.
C38_Witness ==
  /\ calc.op = "btc"
  /\ calc.enabled
  /\ calc.seen = {"at_min", "above_min", "small", "no_open", "no_prices"}
  /\ calc.last.outcome \notin {"none", "blocked", "btc_blocked"}
  /\ calc.last.changed

====
